---- MODULE Spec2Model ----
(***************************************************************************)
(* A model of the tinydmi description parser (crates/tinydmi) and of the   *)
(* cell addressing built on it.  Text is a TLA+ string; every parser is an *)
(* operator from the remaining input to a parse result, composed the way   *)
(* the nom combinators of the source compose them.                         *)
(*                                                                         *)
(* A parse result is Err (nom's Err::Error) or Ok(rest, val).              *)
(* An f32 is modelled by the exact decimal it is written as, [m, e]       *)
(* standing for m * 10^-e with no trailing zero in the fraction; for the   *)
(* short literals drawn here equal decimals are equal f32 values and       *)
(* different decimals are different f32 values.  The inputs carry no sign, *)
(* exponent, "nan" or "inf" spelling.                                      *)
(***************************************************************************)
EXTENDS Integers, Sequences, FiniteSets, TLC

VARIABLES
    input,      \* the text handed to the parser under test / still to be read
    pc,         \* position of the running operation
    result,     \* what the last applied operation returned
    header,     \* metadata(): the parsed Header
    states,     \* metadata(): the Vec<State> that many0(state) collected
    state_map,  \* metadata(): the IndexMap name -> Vec<(IconLocation, State)>
    cursor,     \* metadata(): the fold's running cell cursor
    folded,     \* metadata(): how many states the fold has consumed
    dir0,       \* direction model: the direction started from
    dir,        \* direction model: the current direction
    ops,        \* direction model: the transforms applied, in order
    image,      \* IconFile: the decoded image (its width and height)
    guard,      \* renderer: the RenderStateGuard prepare_render returned
    rendering,  \* renderer: the icon_state and index of the running render
    canvas,     \* renderer: the scratch canvas of the running render
    range,      \* renderer: the frames the running loop has still to visit
    emitted,    \* renderer: the frames rendered so far, in order
    source,     \* composite: the image `from`
    destination,\* composite: the image `to`
    crop,       \* composite: the rectangle `crop_from`
    tint        \* composite: the colour `tint_color`

vars == <<input, pc, result, header, states, state_map, cursor, folded, dir0, dir, ops,
          image, guard, rendering, canvas, range, emitted, source, destination, crop, tint>>

----------------------------------------------------------------------------
(* Bounds of the model *)

MaxLen == 5
MaxStates == 3
MaxProps == 3
MaxOps == 2
MaxFrame == 2

(* Every numeral of the inputs has fewer than ten digits, and every cell    *)
(* count and index stays far below 2^32: no u32 operation of the modelled  *)
(* code overflows, and integers are used as they are.                      *)

----------------------------------------------------------------------------
(* Strings *)

Take(s, n) == SubSeq(s, 1, n)
Drop(s, n) == SubSeq(s, n + 1, Len(s))
StartsWith(s, t) == Len(s) >= Len(t) /\ SubSeq(s, 1, Len(t)) = t

Digits == {"0", "1", "2", "3", "4", "5", "6", "7", "8", "9"}
Alpha == {"a", "b", "c", "d", "e", "f", "g", "h", "i", "j", "k", "l", "m",
          "n", "o", "p", "q", "r", "s", "t", "u", "v", "w", "x", "y", "z",
          "A", "B", "C", "D", "E", "F", "G", "H", "I", "J", "K", "L", "M",
          "N", "O", "P", "Q", "R", "S", "T", "U", "V", "W", "X", "Y", "Z"}
Spaces == {" ", "\t"}
MultiSpaces == {" ", "\t", "\n", "\r"}

DigitVal(c) ==
    CASE c = "0" -> 0 [] c = "1" -> 1 [] c = "2" -> 2 [] c = "3" -> 3
      [] c = "4" -> 4 [] c = "5" -> 5 [] c = "6" -> 6 [] c = "7" -> 7
      [] c = "8" -> 8 [] c = "9" -> 9

(* the length of the longest prefix of s made of characters of set *)
RECURSIVE SpanLen(_, _)
SpanLen(s, set) ==
    IF s # "" /\ Head(s) \in set THEN 1 + SpanLen(Tail(s), set) ELSE 0

RECURSIVE NatOf(_)
NatOf(s) ==
    IF s = "" THEN 0
    ELSE NatOf(Take(s, Len(s) - 1)) * 10 + DigitVal(SubSeq(s, Len(s), Len(s)))

RECURSIVE Pow10(_)
Pow10(n) == IF n = 0 THEN 1 ELSE 10 * Pow10(n - 1)

----------------------------------------------------------------------------
(* Parse results and their sequencing *)

Err == [ok |-> FALSE]
Ok(rest, val) == [ok |-> TRUE, rest |-> rest, val |-> val]
Good(val) == [ok |-> TRUE, val |-> val]

(* `let r = ...;` *)
Bind(r, F(_)) == F(r)
(* `let r = ...?;`: an error is returned as it is, F continues on success *)
Then(r, F(_)) == IF r.ok THEN F(r) ELSE Err
(* nom's alt of two parsers: the second is tried when the first fails *)
OrElse(r, other) == IF r.ok THEN r ELSE other

(* nom's tag, char, newline: an exact prefix *)
tag(t, i) == IF StartsWith(i, t) THEN Ok(Drop(i, Len(t)), t) ELSE Err
newline(i) == tag("\n", i)

(* nom's digit1, alpha1, space1, multispace0: a run of one character class *)
span(n, i) == IF n > 0 THEN Ok(Drop(i, n), Take(i, n)) ELSE Err
digit1(i) == span(SpanLen(i, Digits), i)
alpha1(i) == span(SpanLen(i, Alpha), i)
space1(i) == span(SpanLen(i, Spaces), i)
multispace0(i) == Drop(i, SpanLen(i, MultiSpaces))

----------------------------------------------------------------------------
(* values.rs *)

RECURSIVE Normal(_, _)
Normal(m, e) == IF e > 0 /\ m % 10 = 0 THEN Normal(m \div 10, e - 1) ELSE <<m, e>>

(* the f32 written as the digits ip, a point and the digits fp *)
Decimal(ip, fp) == Normal(NatOf(ip) * Pow10(Len(fp)) + NatOf(fp), Len(fp))

(* float, given the a digits i starts with and the b digits that follow    *)
(* the point after them (hasDot)                                           *)
float_parts(i, a, hasDot, b) ==
    IF a > 0 /\ hasDot
      THEN Ok(Drop(i, a + 1 + b), Decimal(Take(i, a), SubSeq(i, a + 2, a + 1 + b)))
    ELSE IF a > 0
      THEN Ok(Drop(i, a), Decimal(Take(i, a), ""))
    ELSE IF hasDot /\ b > 0
      THEN Ok(Drop(i, 1 + b), Decimal("", SubSeq(i, 2, 1 + b)))
    ELSE Err

float_after(i, a) ==
    float_parts(i, a, StartsWith(Drop(i, a), "."), SpanLen(Drop(i, a + 1), Digits))

(* nom::number::complete::float on unsigned decimals: digits with an       *)
(* optional point and optional fraction digits, or a point and digits      *)
float(i) == float_after(i, SpanLen(i, Digits))

(* the characters of t other than a quote *)
NotQuote(t) == {SubSeq(t, k, k) : k \in 1..Len(t)} \ {"\""}

string_body(body, n) ==
    IF StartsWith(Drop(body, n), "\"") THEN Ok(Drop(body, n + 1), Take(body, n)) ELSE Err

(* string: a quote, any characters other than a quote, a quote *)
string(i) ==
    IF StartsWith(i, "\"")
      THEN string_body(Drop(i, 1), SpanLen(Drop(i, 1), NotQuote(i)))
      ELSE Err

(* rec_float: recognize((digit1, decimal, digit1)) *)
rec_float(i) ==
    Then(digit1(i), LAMBDA a :
    Then(tag(".", a.rest), LAMBDA point :
    Then(digit1(point.rest), LAMBDA b :
    Ok(b.rest, Take(i, Len(i) - Len(b.rest))))))

atom_float(i) ==
    Then(rec_float(i), LAMBDA r :
    Then(float(r.val), LAMBDA f :
    Ok(r.rest, [tag |-> "Float", v |-> f.val])))

(* nom::character::complete::u32: a run of digits, read as its value *)
atom_u32(i) ==
    Then(digit1(i), LAMBDA d : Ok(d.rest, [tag |-> "Int", v |-> NatOf(d.val)]))

atom_string(i) ==
    Then(string(i), LAMBDA s : Ok(s.rest, [tag |-> "String", v |-> s.val]))

----------------------------------------------------------------------------
(* polyfill.rs: SeparatedList1 { parser: float, separator: tag(",") } *)

(* the loop with a missing element after a separator made an error *)
RECURSIVE SeparatedList1_loop_strict(_, _)
SeparatedList1_loop_strict(i, res) ==
    Then(tag(",", i), LAMBDA sep :
    Then(float(sep.rest), LAMBDA p :
    IF Len(p.rest) = Len(i) THEN Err
    ELSE SeparatedList1_loop_strict(p.rest, Append(res, p.val))))

(* the loop of nom's own separated_list1: a missing separator ends the list *)
RECURSIVE SeparatedList1_loop_nom(_, _)
SeparatedList1_loop_nom(i, res) ==
    Bind(tag(",", i), LAMBDA sep :
    IF ~sep.ok THEN Ok(i, res)
    ELSE Bind(float(sep.rest), LAMBDA p :
         IF ~p.ok THEN Ok(i, res)
         ELSE IF Len(p.rest) = Len(i) THEN Err
         ELSE SeparatedList1_loop_nom(p.rest, Append(res, p.val))))

(* the loop of process: i is the input after the last element, res the     *)
(* elements so far                                                         *)
RECURSIVE SeparatedList1_loop(_, _)
SeparatedList1_loop(i, res) ==
    Bind(tag(",", i), LAMBDA sep :
    IF ~sep.ok THEN Err                         \* separator: Err::Error => Err
    ELSE Bind(float(sep.rest), LAMBDA p :
         IF ~p.ok THEN Ok(i, res)               \* element: Err::Error => Ok((i, res))
         ELSE IF Len(p.rest) = Len(i) THEN Err  \* the parser must consume
         ELSE SeparatedList1_loop(p.rest, Append(res, p.val))))

SeparatedList1_process(i) ==
    Then(float(i), LAMBDA first : SeparatedList1_loop(first.rest, <<first.val>>))

(* values.rs *)
atom_list(i) ==
    Then(SeparatedList1_process(i), LAMBDA l : Ok(l.rest, [tag |-> "List", v |-> l.val]))

(* alt((atom_list, atom_float, atom_u32, atom_string)) *)
atom(i) ==
    OrElse(atom_list(i), OrElse(atom_float(i), OrElse(atom_u32(i), atom_string(i))))

----------------------------------------------------------------------------
(* key_value.rs *)

(* the match of key() on the letters read *)
Key(name) ==
    CASE name = "version"  -> [k |-> "Version"]
      [] name = "width"    -> [k |-> "Width"]
      [] name = "height"   -> [k |-> "Height"]
      [] name = "state"    -> [k |-> "State"]
      [] name = "dirs"     -> [k |-> "Dirs"]
      [] name = "frames"   -> [k |-> "Frames"]
      [] name = "delay"    -> [k |-> "Delay"]
      [] name = "loop"     -> [k |-> "Loop"]
      [] name = "rewind"   -> [k |-> "Rewind"]
      [] name = "movement" -> [k |-> "Movement"]
      [] name = "hotspot"  -> [k |-> "Hotspot"]
      [] OTHER             -> [k |-> "Unk", name |-> name]

key(i) == Then(alpha1(i), LAMBDA a : Ok(a.rest, Key(a.val)))

(* TryFrom<u32> for Dirs *)
Dirs_try_from(value) ==
    CASE value = 1 -> Good("One")
      [] value = 4 -> Good("Four")
      [] value = 8 -> Good("Eight")
      [] OTHER     -> Err

get_num(dirs) ==
    CASE dirs = "One" -> 1 [] dirs = "Four" -> 4 [] dirs = "Eight" -> 8

KV(k, v) == [key |-> k, v |-> v]

(* the closure of key_value on a key k and a value of type t holding x:    *)
(* the typed pair, or the error of map_res                                 *)
key_value_match(k, t, x) ==
    CASE k.k = "Version"  /\ t = "Float"  -> Good(KV("Version", x))
      [] k.k = "Width"    /\ t = "Int"    -> Good(KV("Width", x))
      [] k.k = "Height"   /\ t = "Int"    -> Good(KV("Height", x))
      [] k.k = "State"    /\ t = "String" -> Good(KV("State", x))
      [] k.k = "Dirs"     /\ t = "Int"    ->
            Then(Dirs_try_from(x), LAMBDA d : Good(KV("Dirs", d.val)))
      [] k.k = "Frames"   /\ t = "Int"    -> Good(KV("Frames", x))
      [] k.k = "Delay"    /\ t = "List"   -> Good(KV("Delay", x))
      [] k.k = "Loop"     /\ t = "Int"    -> Good(KV("Loop", x > 0))
      [] k.k = "Rewind"   /\ t = "Int"    -> Good(KV("Rewind", x > 0))
      [] k.k = "Movement" /\ t = "Int"    -> Good(KV("Movement", x > 0))
      [] k.k = "Hotspot"  /\ t = "List"   -> Good(KV("Hotspot", x))
      [] k.k = "Unk"                      ->
            Good([key |-> "Unk", name |-> k.name, v |-> [tag |-> t, v |-> x]])
      [] OTHER                            -> Err

(* map_res(separated_pair(key, tag(" = "), atom), ...) *)
key_value(i) ==
    Then(key(i), LAMBDA k :
    Then(tag(" = ", k.rest), LAMBDA eq :
    Then(atom(eq.rest), LAMBDA a :
    Then(key_value_match(k.val, a.val.tag, a.val.v), LAMBDA m :
    Ok(a.rest, m.val)))))

----------------------------------------------------------------------------
(* Option<T> and the HashMap of unrecognised keys *)

None == [some |-> FALSE]
Some(x) == [some |-> TRUE, v |-> x]

(* the map with key k set to value v, whatever it held under k *)
MapInsert(map, k, v) == [n \in DOMAIN map \cup {k} |-> IF n = k THEN v ELSE map[n]]

(* `unk` after one KeyValue::Unk(key, value) *)
UnkInsert(unk, k, v) ==
    IF unk.some
      THEN Some(MapInsert(unk.v, k, v))
      ELSE Some([n \in {k} |-> v])

(* delimited(space1, key_value, newline) *)
property_line(i) ==
    Then(space1(i), LAMBDA sp :
    Then(key_value(sp.rest), LAMBDA kv :
    Then(newline(kv.rest), LAMBDA nl :
    Ok(nl.rest, kv.val))))

(* many1's loop: lines as long as they parse; the input is left where the  *)
(* first failing line starts                                               *)
RECURSIVE many_properties(_, _)
many_properties(i, acc) ==
    Bind(property_line(i), LAMBDA l :
    IF ~l.ok THEN Ok(i, acc)
    ELSE many_properties(l.rest, Append(acc, l.val)))

(* many1(delimited(space1, key_value, newline)) *)
many1_properties(i) ==
    Then(property_line(i), LAMBDA l : many_properties(l.rest, <<l.val>>))

(* verify(terminated(key_value, newline), |v| matches!(v, <first>(_))) *)
first_line(firstKey, i) ==
    Then(key_value(i), LAMBDA kv :
    Then(newline(kv.rest), LAMBDA nl :
    IF kv.val.key = firstKey THEN Ok(nl.rest, kv.val) ELSE Err))

----------------------------------------------------------------------------
(* state.rs *)

StateLocals ==
    [dirs |-> None, frames |-> 1, delays |-> None, loop |-> FALSE,
     rewind |-> FALSE, movement |-> FALSE, hotspot |-> None, unk |-> None]

(* one iteration of `for kv in kvs`: the locals after kv, or the error *)
State_try_from_kv(l, kv) ==
    CASE kv.key = "Dirs" -> Good([l EXCEPT !.dirs = Some(kv.v)])
      [] kv.key = "Frames" ->
            IF l.frames = 1 THEN Good([l EXCEPT !.frames = kv.v]) ELSE Err
      [] kv.key = "Delay" ->
            IF ~l.delays.some THEN Good([l EXCEPT !.delays = Some(kv.v)]) ELSE Err
      [] kv.key = "Loop" -> Good([l EXCEPT !.loop = kv.v])
      [] kv.key = "Rewind" -> Good([l EXCEPT !.rewind = kv.v])
      [] kv.key = "Movement" -> Good([l EXCEPT !.movement = kv.v])
      [] kv.key = "Hotspot" ->
            IF Len(kv.v) = 3 THEN Good([l EXCEPT !.hotspot = Some(kv.v)]) ELSE Err
      [] kv.key = "Unk" -> Good([l EXCEPT !.unk = UnkInsert(l.unk, kv.name, kv.v)])
      [] OTHER -> Err

RECURSIVE State_try_from_loop(_, _)
State_try_from_loop(l, kvs) ==
    IF kvs = <<>> THEN Good(l)
    ELSE Then(State_try_from_kv(l, Head(kvs)), LAMBDA step :
         State_try_from_loop(step.val, Tail(kvs)))

(* the State built from the name and the locals, dirs being required *)
State_build(name, l) ==
    IF ~l.dirs.some THEN Err
    ELSE Good([name |-> name, dirs |-> l.dirs.v, frames |-> l.frames,
               delays |-> l.delays, loop |-> l.loop, rewind |-> l.rewind,
               movement |-> l.movement, hotspot |-> l.hotspot, unk |-> l.unk])

(* TryFrom<(KeyValue, Vec<KeyValue>)> for State *)
State_try_from(first, kvs) ==
    Then(State_try_from_loop(StateLocals, kvs), LAMBDA l : State_build(first.v, l.val))

(* a panic: the call does not return *)
Panic == [ok |-> FALSE, panic |-> TRUE]

(* State::is_animated: 1 => false, 2.. => true, _ => unreachable!() *)
is_animated(st) ==
    CASE st.frames = 1  -> Good(FALSE)
      [] st.frames >= 2 -> Good(TRUE)
      [] OTHER          -> Panic

(* state(): map_res(pair(verify(...), many1(...)), State::try_from) *)
state(i) ==
    Then(first_line("State", i), LAMBDA name :
    Then(many1_properties(name.rest), LAMBDA props :
    Then(State_try_from(name.val, props.val), LAMBDA st :
    Ok(props.rest, st.val))))

----------------------------------------------------------------------------
(* metadata.rs: the header *)

Version4 == <<4, 0>>

HeaderLocals == [width |-> None, height |-> None, unk |-> None]

(* the loop body with every other key taken as an unrecognised one *)
Header_try_from_kv_lenient(l, kv) ==
    CASE kv.key = "Width" -> Good([l EXCEPT !.width = Some(kv.v)])
      [] kv.key = "Height" -> Good([l EXCEPT !.height = Some(kv.v)])
      [] kv.key = "Unk" -> Good([l EXCEPT !.unk = UnkInsert(l.unk, kv.name, kv.v)])
      [] OTHER ->
            Good([l EXCEPT !.unk = UnkInsert(l.unk, kv.key, [tag |-> "Key", v |-> kv.v])])

(* one iteration of `for value in kvs` *)
Header_try_from_kv(l, kv) ==
    CASE kv.key = "Width" -> Good([l EXCEPT !.width = Some(kv.v)])
      [] kv.key = "Height" -> Good([l EXCEPT !.height = Some(kv.v)])
      [] kv.key = "Unk" -> Good([l EXCEPT !.unk = UnkInsert(l.unk, kv.name, kv.v)])
      [] OTHER -> Err

RECURSIVE Header_try_from_loop(_, _)
Header_try_from_loop(l, kvs) ==
    IF kvs = <<>> THEN Good(l)
    ELSE Then(Header_try_from_kv(l, Head(kvs)), LAMBDA step :
         Header_try_from_loop(step.val, Tail(kvs)))

(* the Header built from the version and the locals, width and height      *)
(* being required                                                          *)
Header_build(version, l) ==
    IF ~l.width.some \/ ~l.height.some THEN Err
    ELSE Good([version |-> version, width |-> l.width.v,
               height |-> l.height.v, unk |-> l.unk])

(* TryFrom<(KeyValue, Vec<KeyValue>)> for Header *)
Header_try_from(first, kvs) ==
    IF first.v # Version4 THEN Err
    ELSE Then(Header_try_from_loop(HeaderLocals, kvs), LAMBDA l :
         Header_build(first.v, l.val))

(* header() *)
header_parser(i) ==
    Then(first_line("Version", i), LAMBDA version :
    Then(many1_properties(version.rest), LAMBDA props :
    Then(Header_try_from(version.val, props.val), LAMBDA h :
    Ok(props.rest, h.val))))

begin_dmi(i) ==
    Then(tag("# BEGIN DMI", i), LAMBDA t :
    Then(newline(t.rest), LAMBDA nl : Ok(nl.rest, t.val)))

end_dmi(i) ==
    Then(tag("# END DMI", i), LAMBDA t : Ok(multispace0(t.rest), t.val))

----------------------------------------------------------------------------
(* metadata.rs: the state map and the lookups.  The IndexMap is the        *)
(* sequence of its entries in insertion order, each a name and the         *)
(* Vec<(IconLocation, State)> of the states declared under that name.      *)

EntryOf(map, name) == {n \in 1..Len(map) : map[n].name = name}

(* state.frames * state.dirs.get_num() *)
num_states(st) == st.frames * get_num(st.dirs)

(* the fold's next cursor *)
cursor_after_frames_only(c, st) == c + st.frames
cursor_after(c, st) == c + num_states(st)

(* the entry of a name replaced by the one new item *)
entry_replace(map, name, item) ==
    IF EntryOf(map, name) = {}
      THEN Append(map, [name |-> name, occ |-> <<item>>])
      ELSE [n \in 1..Len(map) |->
              IF map[n].name = name THEN [map[n] EXCEPT !.occ = <<item>>] ELSE map[n]]

(* state_map.entry(name).or_default().push(item) *)
entry_push(map, name, item) ==
    IF EntryOf(map, name) = {}
      THEN Append(map, [name |-> name, occ |-> <<item>>])
      ELSE [n \in 1..Len(map) |->
              IF map[n].name = name THEN [map[n] EXCEPT !.occ = Append(@, item)] ELSE map[n]]

(* self.states.get(name)?.get(index)? *)
Vec_get(vec, index) == IF index < Len(vec) THEN Some(vec[index + 1]) ELSE None

get_icon_state(map, index, name) ==
    IF EntryOf(map, name) = {} THEN None
    ELSE Vec_get(map[CHOOSE n \in EntryOf(map, name) : TRUE].occ, index)

(* the slot table with the directions in the order of their bits *)
dir_idx_bit_order(dirs, d) ==
    CASE dirs = "One" -> 0
      [] dirs = "Eight" /\ d = "Northwest" -> 7
      [] dirs = "Eight" /\ d = "Northeast" -> 6
      [] dirs = "Eight" /\ d = "Southwest" -> 5
      [] dirs = "Eight" /\ d = "Southeast" -> 4
      [] d = "West" -> 3
      [] d = "East" -> 2
      [] d = "South" -> 1
      [] OTHER -> 0

(* the match of get_index_of_dir and get_index_of_frame *)
dir_idx(dirs, d) ==
    CASE dirs = "One" -> 0
      [] dirs = "Eight" /\ d = "Northwest" -> 7
      [] dirs = "Eight" /\ d = "Northeast" -> 6
      [] dirs = "Eight" /\ d = "Southwest" -> 5
      [] dirs = "Eight" /\ d = "Southeast" -> 4
      [] d = "West" -> 3
      [] d = "East" -> 2
      [] d = "North" -> 1
      [] OTHER -> 0

(* `let (first_index, first_state) = self.get_icon_state(icon_state)?;` *)
IfSome(found, F(_)) == IF found.some THEN F(found.v) ELSE None

get_index_of_dir(map, index, name, d) ==
    IfSome(get_icon_state(map, index, name), LAMBDA first :
    Some(first.loc + dir_idx(first.state.dirs, d)))

(* get_index_of_frame stepping one cell, not one row of directions, per frame *)
get_index_of_frame_by_one(map, index, name, d, frame) ==
    IfSome(get_icon_state(map, index, name), LAMBDA first :
    Some((first.loc + dir_idx(first.state.dirs, d)) + frame))

get_index_of_frame(map, index, name, d, frame) ==
    IfSome(get_icon_state(map, index, name), LAMBDA first :
    Some((first.loc + dir_idx(first.state.dirs, d)) + frame * get_num(first.state.dirs)))

----------------------------------------------------------------------------
(* dir.rs *)

Dir == {"North", "South", "East", "West",
        "Northeast", "Northwest", "Southeast", "Southwest"}

to_int(d) ==
    CASE d = "North" -> 1 [] d = "South" -> 2 [] d = "East" -> 4 [] d = "West" -> 8
      [] d = "Northeast" -> 5 [] d = "Northwest" -> 9
      [] d = "Southeast" -> 6 [] d = "Southwest" -> 10

is_diagonal(d) == d \notin {"North", "South", "East", "West"}

flip(d) ==
    CASE d = "North" -> "South" [] d = "South" -> "North"
      [] d = "East" -> "West" [] d = "West" -> "East"
      [] d = "Northeast" -> "Southwest" [] d = "Northwest" -> "Southeast"
      [] d = "Southeast" -> "Northwest" [] d = "Southwest" -> "Northeast"

flip_ns(d) ==
    CASE d = "North" -> "South" [] d = "South" -> "North"
      [] d = "East" -> "East" [] d = "West" -> "West"
      [] d = "Northeast" -> "Southeast" [] d = "Northwest" -> "Southwest"
      [] d = "Southeast" -> "Northeast" [] d = "Southwest" -> "Northwest"

flip_ew(d) ==
    CASE d = "North" -> "North" [] d = "South" -> "South"
      [] d = "East" -> "West" [] d = "West" -> "East"
      [] d = "Northeast" -> "Northwest" [] d = "Northwest" -> "Northeast"
      [] d = "Southeast" -> "Southwest" [] d = "Southwest" -> "Southeast"

clockwise_45(d) ==
    CASE d = "North" -> "Northeast" [] d = "Northeast" -> "East"
      [] d = "East" -> "Southeast" [] d = "Southeast" -> "South"
      [] d = "South" -> "Southwest" [] d = "Southwest" -> "West"
      [] d = "West" -> "Northwest" [] d = "Northwest" -> "North"

counterclockwise_45(d) ==
    CASE d = "North" -> "Northwest" [] d = "Northeast" -> "North"
      [] d = "East" -> "Northeast" [] d = "Southeast" -> "East"
      [] d = "South" -> "Southeast" [] d = "Southwest" -> "South"
      [] d = "West" -> "Southwest" [] d = "Northwest" -> "West"

clockwise_90(d) ==
    CASE d = "North" -> "East" [] d = "South" -> "West"
      [] d = "East" -> "South" [] d = "West" -> "North"
      [] d = "Northeast" -> "Southeast" [] d = "Northwest" -> "Northeast"
      [] d = "Southeast" -> "Southwest" [] d = "Southwest" -> "Northeast"

counterclockwise_90(d) ==
    CASE d = "North" -> "West" [] d = "South" -> "East"
      [] d = "East" -> "North" [] d = "West" -> "South"
      [] d = "Southeast" -> "Northeast" [] d = "Northeast" -> "Northwest"
      [] d = "Southwest" -> "Southeast" [] d = "Northwest" -> "Southwest"

----------------------------------------------------------------------------
(* What the variables a specification does not use are held at *)

NoResult == [op |-> "none"]
IdleParse ==
    /\ header = None /\ states = <<>> /\ state_map = <<>>
    /\ cursor = 0 /\ folded = 0
IdleDir == dir0 = "South" /\ dir = "South" /\ ops = <<>>
NoCanvas == [width |-> 0, height |-> 0, writes |-> <<>>]
IdleRender ==
    /\ guard = None /\ rendering = None /\ canvas = NoCanvas
    /\ range = <<>> /\ emitted = <<>>
IdleIcon == image = [width |-> 0, height |-> 0] /\ IdleRender
IdleComposite ==
    /\ source = <<>> /\ destination = <<>>
    /\ crop = [x |-> 0, y |-> 0, width |-> 0, height |-> 0]
    /\ tint = <<255, 255, 255, 255>>
parseVars == <<header, states, state_map, cursor, folded>>
dirVars == <<dir0, dir, ops>>
renderVars == <<guard, rendering, canvas, range, emitted>>
iconVars == <<image, renderVars>>
compositeVars == <<source, destination, crop, tint>>

----------------------------------------------------------------------------
(* SpecDir: the transforms of Dir applied to a direction, in any order *)

InitDir ==
    /\ dir0 \in Dir /\ dir = dir0 /\ ops = <<>>
    /\ input = "" /\ pc = "dir" /\ result = NoResult /\ IdleParse
    /\ IdleIcon /\ IdleComposite

Turn(name, to) ==
    /\ pc = "dir" /\ Len(ops) < MaxOps
    /\ dir' = to /\ ops' = Append(ops, name)
    /\ UNCHANGED <<input, pc, result, dir0, parseVars, iconVars, compositeVars>>

Flip == Turn("flip", flip(dir))
FlipNs == Turn("flip_ns", flip_ns(dir))
FlipEw == Turn("flip_ew", flip_ew(dir))
Clockwise45 == Turn("clockwise_45", clockwise_45(dir))
Counterclockwise45 == Turn("counterclockwise_45", counterclockwise_45(dir))
Clockwise90 == Turn("clockwise_90", clockwise_90(dir))
Counterclockwise90 == Turn("counterclockwise_90", counterclockwise_90(dir))

NextDir ==
    \/ Flip \/ FlipNs \/ FlipEw
    \/ Clockwise45 \/ Counterclockwise45
    \/ Clockwise90 \/ Counterclockwise90

SpecDir == InitDir /\ [][NextDir]_vars

(* C4: for every direction d, clockwise_90(counterclockwise_90(d)) = d.     *)
(* Stated of the code: violated from Northwest (and from Southeast's       *)
(* image), because clockwise_90 sends Southwest to Northeast.              *)
C4_Rot90Inverse ==
    ops = <<"counterclockwise_90", "clockwise_90">> => dir = dir0

----------------------------------------------------------------------------
(* SpecValues: the value parsers and key_value applied to a value text *)

ValueAlphabet == {"1", "2", ".", ",", "\n"}

RECURSIVE Texts(_, _)
Texts(alphabet, n) ==
    IF n = 0 THEN {""}
    ELSE LET shorter == Texts(alphabet, n - 1) IN
         shorter \cup {t \o c : t \in shorter, c \in alphabet}

(* the value literals of the source's own tests *)
TestValues ==
    {"1,2,3", "1,2,5.4,3", "1,2,5.4", "13,12,1", "1.2,1", "4.0", "32",
     "\"duplicate\"", "\"\"", "1,2,5.4,3\nstate = \"...\""}

ValueTexts == Texts(ValueAlphabet, MaxLen) \cup TestValues

ValueKeys == {"delay", "hotspot", "frames", "future"}

InitValues ==
    /\ input \in ValueTexts /\ pc = "value" /\ result = NoResult
    /\ IdleParse /\ IdleDir /\ IdleIcon /\ IdleComposite

Apply(op, key_name, text, r) ==
    /\ pc = "value"
    /\ result' = [op |-> op, key |-> key_name, text |-> text, r |-> r]
    /\ pc' = "applied"
    /\ UNCHANGED <<input, parseVars, dirVars, iconVars, compositeVars>>

ApplyAtomList == Apply("atom_list", "", input, atom_list(input))
ApplyAtom == Apply("atom", "", input, atom(input))
ApplyKeyValue ==
    \E k \in ValueKeys :
        \E line \in {k \o " = " \o input} :
            Apply("key_value", k, line, key_value(line))
ApplyPropertyLine ==
    \E k \in ValueKeys :
        \E line \in {"\t" \o k \o " = " \o input} :
            Apply("property_line", k, line, property_line(line))

NextValues == ApplyAtomList \/ ApplyAtom \/ ApplyKeyValue \/ ApplyPropertyLine

SpecValues == InitValues /\ [][NextValues]_vars

(* Reading a value text as the claims do: the text up to the first newline *)
(* cut at its commas                                                       *)
FirstLine(t) == Take(t, SpanLen(t, {SubSeq(t, k, k) : k \in 1..Len(t)} \ {"\n"}))

RECURSIVE Pieces(_)
Pieces(t) ==
    LET n == SpanLen(t, {SubSeq(t, k, k) : k \in 1..Len(t)} \ {","}) IN
    IF n = Len(t) THEN <<t>> ELSE <<Take(t, n)>> \o Pieces(Drop(t, n + 1))

IsNumber(t) == float(t).ok /\ float(t).rest = ""
IsNumberList(t) == \A k \in 1..Len(Pieces(t)) : IsNumber(Pieces(t)[k])
Numbers(t) == [k \in 1..Len(Pieces(t)) |-> float(Pieces(t)[k]).val]

(* a number list, a comma, and then no number *)
DanglingAt(t, n) ==
    /\ n \in 1..(Len(t) - 1)
    /\ IsNumberList(Take(t, n))
    /\ SubSeq(t, n + 1, n + 1) = ","
    /\ ~float(Drop(t, n + 1)).ok
Dangling(t) == \E n \in 1..Len(t) : DanglingAt(t, n)

(* C5: a comma-separated list of two or more numbers parses as the List of *)
(* exactly those numbers and consumes exactly the list text (the rest is   *)
(* empty or starts at the newline), and a delay line holding it yields     *)
(* those delays.  Stated of the code: violated, every such list is Err.    *)
C5_ListParses ==
    LET lst == FirstLine(input) IN
    (pc = "applied" /\ IsNumberList(lst) /\ Len(Pieces(lst)) >= 2) =>
        /\ result.op = "atom_list" =>
              result.r = Ok(Drop(input, Len(lst)), [tag |-> "List", v |-> Numbers(lst)])
        /\ (result.op = "key_value" /\ result.key = "delay") =>
              result.r = Ok(Drop(input, Len(lst)), KV("Delay", Numbers(lst)))

(* C6 as claimed: a list whose separator is followed by no element is an   *)
(* error of atom_list.                                                     *)
C6_DanglingIsError ==
    (result.op = "atom_list" /\ Dangling(input)) => ~result.r.ok

(* C6 as amended: atom_list succeeds with the elements read before the     *)
(* dangling separator and leaves the input at that separator; the line     *)
(* holding the list is what is rejected.                                   *)
C6_DanglingStopsAtSeparator ==
    \A n \in 1..Len(input) :
        DanglingAt(input, n) =>
            /\ result.op = "atom_list" =>
                  result.r = Ok(Drop(input, n),
                                [tag |-> "List", v |-> Numbers(Take(input, n))])
            /\ (result.op = "property_line" /\ result.key \in {"delay", "hotspot"}) =>
                  ~result.r.ok

C6_Witness ==
    /\ result.op = "atom_list" /\ input = "1,2,"
    /\ result.r.ok /\ result.r.rest = "," /\ Len(result.r.val.v) = 2

(* C7 as claimed: a delay line whose value is one number is accepted and   *)
(* yields a one-element delay list.                                        *)
C7_SingleDelayAccepted ==
    (result.op = "key_value" /\ result.key = "delay" /\ IsNumber(input)) =>
        result.r = Ok("", KV("Delay", <<float(input).val>>))

(* C7 as amended: a delay line whose value is one number is rejected by    *)
(* key_value: the list parser fails when no separator follows the first    *)
(* element and no other value type matches the delay key.                  *)
C7_SingleDelayRejected ==
    (result.op = "key_value" /\ result.key = "delay" /\ IsNumber(input)) =>
        ~result.r.ok

C7_Witness ==
    /\ result.op = "key_value" /\ result.key = "delay" /\ input = "2.1"
    /\ ~result.r.ok

----------------------------------------------------------------------------
(* SpecBlocks: state() and header() applied to a block of text, and the    *)
(* two TryFrom conversions applied to a vector of KeyValue                 *)

MaxHeaderLines == 4

StateLines ==
    {"\tdirs = 1\n", "    dirs = 4\n", "\tframes = 0\n", "\tframes = 1\n",
     "\tframes = 2\n", "\tframes = 3\n", "\tdelay = 1,2\n", "\trewind = 1\n"}

HeaderLines ==
    {"\twidth = 32\n", "\theight = 32\n", "\tfuture = \"lmao\"\n",
     "\tfuture = 2\n", "\tdirs = 4\n"}

RECURSIVE Blocks(_, _)
Blocks(lines, n) ==
    IF n = 0 THEN {""}
    ELSE LET shorter == Blocks(lines, n - 1) IN
         shorter \cup {b \o l : b \in shorter, l \in lines}

(* the state blocks of the tests of state.rs *)
TestStateBlocks ==
    {"state = \"duplicate\"\n    dirs = 1\n    frames = 1",
     "state = \"bluespace_coffee\"\n    dirs = 1\n    frames = 4\n    delay = 1,2,5.4,3\nstate = \"...\"",
     "state = \"bluespace_coffee\"\n    dirs = 1\n    delay = 1,2,5.4,3\nstate = \"...\""}

StateBlocks ==
    {"state = \"a\"\n" \o b : b \in Blocks(StateLines, MaxProps)} \cup TestStateBlocks

HeaderBlocks ==
    {v \o b : v \in {"version = 4.0\n", "version = 5.0\n"},
              b \in Blocks(HeaderLines, MaxHeaderLines)}

StateTokens ==
    <<KV("Dirs", "One"), KV("Frames", 0), KV("Frames", 1), KV("Frames", 2),
      KV("Delay", <<<<1, 0>>, <<2, 0>>>>), KV("Rewind", TRUE), KV("Width", 32)>>

HeaderTokens ==
    <<KV("Width", 32), KV("Height", 32),
      [key |-> "Unk", name |-> "future", v |-> [tag |-> "String", v |-> "lmao"]],
      [key |-> "Unk", name |-> "future", v |-> [tag |-> "Int", v |-> 2]],
      KV("Dirs", "Four")>>

(* the ways to pick at most n of count tokens, in order, and the vector of  *)
(* the tokens picked                                                       *)
Picks(count, n) == UNION {[1..len -> 1..count] : len \in 0..n}
Vector(tokens, pick) == [k \in 1..Len(pick) |-> tokens[pick[k]]]

InitBlocks ==
    /\ \/ pc = "state" /\ input \in StateBlocks
       \/ pc = "header" /\ input \in HeaderBlocks
       \/ pc \in {"State::try_from", "Header::try_from"} /\ input = ""
    /\ result = NoResult /\ IdleParse /\ IdleDir /\ IdleIcon /\ IdleComposite

Return(at, r) ==
    /\ pc = at
    /\ result' = r
    /\ pc' = "returned"
    /\ UNCHANGED <<input, parseVars, dirVars, iconVars, compositeVars>>

ApplyState == Return("state", [op |-> "state", r |-> state(input)])
ApplyHeader == Return("header", [op |-> "header", r |-> header_parser(input)])
ApplyStateTryFrom ==
    \E pick \in Picks(Len(StateTokens), MaxProps) :
        Return("State::try_from",
               [op |-> "State::try_from", kvs |-> Vector(StateTokens, pick),
                r |-> State_try_from(KV("State", "a"), Vector(StateTokens, pick))])
ApplyHeaderTryFrom ==
    \E pick \in Picks(Len(HeaderTokens), MaxHeaderLines) :
        Return("Header::try_from",
               [op |-> "Header::try_from", kvs |-> Vector(HeaderTokens, pick),
                r |-> Header_try_from(KV("Version", Version4), Vector(HeaderTokens, pick))])

(* is_animated() called on the State that state() returned *)
IsAnimated ==
    /\ pc = "returned" /\ result.op = "state" /\ result.r.ok
    /\ result' = [op |-> "is_animated", state |-> result.r.val,
                  r |-> is_animated(result.r.val)]
    /\ pc' = "is_animated"
    /\ UNCHANGED <<input, parseVars, dirVars, iconVars, compositeVars>>

NextBlocks ==
    \/ ApplyState \/ ApplyHeader \/ ApplyStateTryFrom \/ ApplyHeaderTryFrom
    \/ IsAnimated

SpecBlocks == InitBlocks /\ [][NextBlocks]_vars

(* how often the text sub occurs in t *)
RECURSIVE Count(_, _)
Count(t, sub) ==
    IF Len(t) < Len(sub) THEN 0
    ELSE (IF StartsWith(t, sub) THEN 1 ELSE 0) + Count(Tail(t), sub)

Indices(kvs, k) == {n \in 1..Len(kvs) : kvs[n].key = k}

(* C8: frames may appear at most once in a state block: two frames lines,  *)
(* whatever their values, are rejected; one frames line is accepted with   *)
(* its value; without one the frame count is 1.  Stated of the code for    *)
(* the conversion and for blocks of text without a delay line: violated,   *)
(* `frames = 1` followed by `frames = 3` is accepted.                      *)
C8_FramesAtMostOnce ==
    /\ result.op = "State::try_from" =>
          LET fr == Indices(result.kvs, "Frames") IN
          /\ Cardinality(fr) >= 2 => ~result.r.ok
          /\ (Cardinality(fr) = 1 /\ result.r.ok) =>
                \A n \in fr : result.r.val.frames = result.kvs[n].v
          /\ (Cardinality(fr) = 0 /\ result.r.ok) => result.r.val.frames = 1
    /\ (result.op = "state" /\ Count(input, "delay = ") = 0
          /\ Count(input, "frames = ") >= 2) =>
          ~result.r.ok

(* C9: a state block with a delay list and no frames declaration is an     *)
(* error.  Stated of the code: violated, the conversion accepts a Delay    *)
(* without Frames, and state() returns Ok for `dirs` followed by `delay`.  *)
C9_DelayNeedsFrames ==
    /\ (result.op = "State::try_from"
          /\ Indices(result.kvs, "Delay") # {} /\ Indices(result.kvs, "Frames") = {}) =>
          ~result.r.ok
    /\ (result.op = "state"
          /\ Count(input, "delay = ") >= 1 /\ Count(input, "frames = ") = 0) =>
          ~result.r.ok


Last(set) == CHOOSE n \in set : \A m \in set : m <= n
UnkNames(kvs) == {kvs[n].name : n \in Indices(kvs, "Unk")}
LastUnk(kvs, name) == kvs[Last({n \in Indices(kvs, "Unk") : kvs[n].name = name})].v

(* C10 as claimed: with width and height present, every other key/value    *)
(* line of the header is kept as extra and none causes an error.           *)
C10_OthersBecomeExtra ==
    /\ (result.op = "Header::try_from"
          /\ Indices(result.kvs, "Width") # {} /\ Indices(result.kvs, "Height") # {}) =>
          result.r.ok
    /\ (result.op = "header" /\ StartsWith(input, "version = 4.0\n")
          /\ Count(input, "width = ") >= 1 /\ Count(input, "height = ") >= 1) =>
          result.r.ok

(* C10 as amended: the header is accepted exactly when width and height    *)
(* are present and every other line has an unrecognised key; each          *)
(* unrecognised key is then held in the extra map with the value of its    *)
(* last line, and a recognised key other than width and height (dirs)      *)
(* makes the header an error.                                              *)
C10_UnknownKeysBecomeExtra ==
    /\ result.op = "Header::try_from" =>
          LET kvs == result.kvs
              r == result.r
          IN  /\ r.ok <=> /\ Indices(kvs, "Width") # {}
                          /\ Indices(kvs, "Height") # {}
                          /\ \A n \in 1..Len(kvs) : kvs[n].key \in {"Width", "Height", "Unk"}
              /\ r.ok =>
                    /\ r.val.width = kvs[Last(Indices(kvs, "Width"))].v
                    /\ r.val.height = kvs[Last(Indices(kvs, "Height"))].v
                    /\ r.val.unk.some <=> UnkNames(kvs) # {}
                    /\ r.val.unk.some =>
                          /\ DOMAIN r.val.unk.v = UnkNames(kvs)
                          /\ \A name \in UnkNames(kvs) :
                                /\ r.val.unk.v[name].tag = LastUnk(kvs, name).tag
                                /\ r.val.unk.v[name].v = LastUnk(kvs, name).v
    /\ result.op = "header" =>
          LET r == result.r IN
          /\ r.ok <=> /\ StartsWith(input, "version = 4.0\n")
                      /\ Count(input, "width = ") >= 1
                      /\ Count(input, "height = ") >= 1
                      /\ Count(input, "dirs = ") = 0
          /\ r.ok =>
                /\ r.rest = ""
                /\ r.val.unk.some <=> Count(input, "future = ") >= 1
                /\ r.val.unk.some => DOMAIN r.val.unk.v = {"future"}

C10_Witness ==
    /\ result.op = "header"
    /\ input = "version = 4.0\n\twidth = 32\n\tfuture = \"lmao\"\n\theight = 32\n"
    /\ result.r.ok
    /\ result.r.val.unk.some
    /\ result.r.val.unk.v["future"].tag = "String"
    /\ result.r.val.unk.v["future"].v = "lmao"

(* C11: for every State the parser produces from a block of the grammar,   *)
(* `frames = 0` included, is_animated() returns the boolean                *)
(* (frame count > 1) and does not abort.  Stated of the code: violated,    *)
(* a state parsed with `frames = 0` reaches unreachable!().                *)
C11_IsAnimatedTotal ==
    result.op = "is_animated" =>
        /\ result.r.ok
        /\ result.r.val = (result.state.frames > 1)

----------------------------------------------------------------------------
(* Spec: metadata() run on a description, step by step, and the lookups on *)
(* the Metadata it returns                                                 *)

HeaderText == "version = 4.0\n\twidth = 32\n\theight = 32\n"

(* the state blocks a description is made of *)
DescriptionBlocks ==
    {"state = \"open\"\n\tdirs = 1\n\tframes = 1\n",
     "state = \"open\"\n\tdirs = 4\n\tframes = 1\n",
     "state = \"open\"\n\tdirs = 8\n\tframes = 2\n",
     "state = \"shut\"\n\tdirs = 4\n\tframes = 2\n\trewind = 1\n",
     "state = \"shut\"\n\tdirs = 8\n"}

(* the description of the test of metadata.rs *)
TestDescription ==
    "# BEGIN DMI\nversion = 4.0\n    width = 32\n    height = 32\n"
    \o "state = \"state1\"\n    dirs = 4\n    frames = 2\n    delay = 1.2,1\n"
    \o "    movement = 1\n    loop = 1\n    rewind = 0\n    hotspot = 12,13,0\n"
    \o "    future = \"lmao\"\n"
    \o "state = \"state2\"\n    dirs = 1\n    frames = 1\n# END DMI"

Descriptions ==
    {"# BEGIN DMI\n" \o HeaderText \o b \o "# END DMI\n" :
        b \in Blocks(DescriptionBlocks, MaxStates)}
    \cup {TestDescription}

LookupNames == {"open", "shut"}

Init ==
    /\ input \in Descriptions /\ pc = "begin_dmi" /\ result = NoResult
    /\ header = None /\ states = <<>> /\ state_map = <<>>
    /\ cursor = 0 /\ folded = 0
    /\ IdleDir /\ IdleIcon /\ IdleComposite

BeginDmi ==
    /\ pc = "begin_dmi"
    /\ \E r \in {begin_dmi(input)} :
       IF r.ok THEN input' = r.rest /\ pc' = "header"
               ELSE input' = input /\ pc' = "failed"
    /\ UNCHANGED <<result, parseVars, dirVars, iconVars, compositeVars>>

Header ==
    /\ pc = "header"
    /\ \E r \in {header_parser(input)} :
       IF r.ok THEN input' = r.rest /\ header' = Some(r.val) /\ pc' = "many0_state"
               ELSE input' = input /\ header' = header /\ pc' = "failed"
    /\ UNCHANGED <<result, states, state_map, cursor, folded, dirVars, iconVars, compositeVars>>

(* one more state read by many0(state) *)
State ==
    /\ pc = "many0_state"
    /\ \E r \in {state(input)} :
       /\ r.ok
       /\ input' = r.rest
       /\ states' = Append(states, r.val)
    /\ UNCHANGED <<pc, result, header, state_map, cursor, folded, dirVars, iconVars, compositeVars>>

(* many0(state) ends at the first text state() does not accept *)
StatesEnd ==
    /\ pc = "many0_state"
    /\ ~state(input).ok
    /\ pc' = "end_dmi"
    /\ UNCHANGED <<input, result, parseVars, dirVars, iconVars, compositeVars>>

(* end_dmi under all_consuming *)
EndDmi ==
    /\ pc = "end_dmi"
    /\ \E r \in {end_dmi(input)} :
       IF r.ok /\ r.rest = "" THEN input' = r.rest /\ pc' = "fold"
                              ELSE input' = input /\ pc' = "failed"
    /\ UNCHANGED <<result, parseVars, dirVars, iconVars, compositeVars>>

(* one step of states.into_iter().fold(0, ...) *)
Fold ==
    /\ pc = "fold"
    /\ folded < Len(states)
    /\ \E st \in {states[folded + 1]} :
       /\ state_map' = entry_push(state_map, st.name, [loc |-> cursor, state |-> st])
       /\ cursor' = cursor_after(cursor, st)
    /\ folded' = folded + 1
    /\ UNCHANGED <<input, pc, result, header, states, dirVars, iconVars, compositeVars>>

(* metadata() returns Ok((tail, Metadata { header, states: state_map })) *)
Loaded ==
    /\ pc = "fold"
    /\ folded = Len(states)
    /\ pc' = "loaded"
    /\ UNCHANGED <<input, result, parseVars, dirVars, iconVars, compositeVars>>

Lookup(r) ==
    /\ pc = "loaded"
    /\ result' = r
    /\ pc' = "answered"
    /\ UNCHANGED <<input, parseVars, dirVars, iconVars, compositeVars>>

GetIconState ==
    \E index \in 0..MaxStates, name \in LookupNames :
        Lookup([op |-> "get_icon_state", index |-> index, name |-> name,
                r |-> get_icon_state(state_map, index, name)])

GetIndexOfDir ==
    \E index \in 0..MaxStates, name \in LookupNames, d \in Dir :
        Lookup([op |-> "get_index_of_dir", index |-> index, name |-> name, dir |-> d,
                r |-> get_index_of_dir(state_map, index, name, d)])

GetIndexOfFrame ==
    \E index \in 0..MaxStates, name \in LookupNames, d \in Dir, frame \in 0..MaxFrame :
        Lookup([op |-> "get_index_of_frame", index |-> index, name |-> name,
                dir |-> d, frame |-> frame,
                r |-> get_index_of_frame(state_map, index, name, d, frame)])

Next ==
    \/ BeginDmi \/ Header \/ State \/ StatesEnd \/ EndDmi \/ Fold \/ Loaded
    \/ GetIconState \/ GetIndexOfDir \/ GetIndexOfFrame

Spec == Init /\ [][Next]_vars

----------------------------------------------------------------------------
(* The offset law and the lookups, stated on the declaration order *)

Cardinality_of(dirs) == CASE dirs = "One" -> 1 [] dirs = "Four" -> 4 [] dirs = "Eight" -> 8

CellCount(st) == Cardinality_of(st.dirs) * st.frames

(* the sum of the cell counts of the first k declared states *)
RECURSIVE CellsBefore(_)
CellsBefore(k) == IF k = 0 THEN 0 ELSE CellsBefore(k - 1) + CellCount(states[k])

(* how many of the first k declared states are named name *)
Declared(k, name) == Cardinality({j \in 1..k : states[j].name = name})

(* the position in the text of occurrence index (from 0) of name *)
PositionOf(index, name) ==
    CHOOSE k \in 1..Len(states) : states[k].name = name /\ Declared(k - 1, name) = index

(* what the map holds for the state declared at position k *)
StoredAt(k) == get_icon_state(state_map, Declared(k - 1, states[k].name), states[k].name)

Finished == pc \in {"loaded", "answered"}

(* C1: once metadata() has returned, the offset stored with every state is *)
(* the sum of dirs x frames over the states declared before it in the      *)
(* text, so 0 for the first one, whatever names the states have.           *)
C1_OffsetLaw ==
    Finished =>
        \A k \in 1..Len(states) :
            /\ StoredAt(k).some
            /\ StoredAt(k).v.state = states[k]
            /\ StoredAt(k).v.loc = CellsBefore(k - 1)

(* three states, the third under the name of the first and another name    *)
(* between them, each stored with a different offset                       *)
C1_Witness ==
    /\ pc = "loaded" /\ Len(states) = 3
    /\ states[3].name = states[1].name /\ states[2].name # states[1].name
    /\ StoredAt(1).v.loc = 0
    /\ StoredAt(2).v.loc > 0
    /\ StoredAt(3).v.loc > StoredAt(2).v.loc

(* the answer C2 describes for occurrence index of a name declared n times *)
KthDeclared(index, name, n) ==
    IF index < n
      THEN Some([loc |-> CellsBefore(PositionOf(index, name) - 1),
                 state |-> states[PositionOf(index, name)]])
      ELSE None

(* C2: get_icon_state(IconIndex(k, name)) returns the k-th state declared  *)
(* under that name with its own offset when k is below the number n of     *)
(* declarations of the name, and None when k >= n.                         *)
C2_NeverMerged ==
    (pc = "answered" /\ result.op = "get_icon_state") =>
        result.r = KthDeclared(result.index, result.name, Declared(Len(states), result.name))

(* two states "open", dirs 1 frames 1 then dirs 4 frames 1: occurrence 1   *)
(* is the second of them, at offset 1                                      *)
C2_Witness ==
    /\ pc = "answered" /\ result.op = "get_icon_state"
    /\ Len(states) = 2
    /\ states[1] # states[2]
    /\ states[1].name = "open" /\ states[1].dirs = "One" /\ states[1].frames = 1
    /\ states[2].name = "open" /\ states[2].dirs = "Four" /\ states[2].frames = 1
    /\ result.name = "open" /\ result.index = 1
    /\ result.r = Some([loc |-> 1, state |-> states[2]])

(* the slot table of C3 *)
Slot(dirs, d) ==
    IF dirs = "One" THEN 0
    ELSE CASE d = "South" -> 0
           [] d = "North" -> 1
           [] d = "East"  -> 2
           [] d = "West"  -> 3
           [] d = "Southeast" -> IF dirs = "Eight" THEN 4 ELSE 0
           [] d = "Southwest" -> IF dirs = "Eight" THEN 5 ELSE 0
           [] d = "Northeast" -> IF dirs = "Eight" THEN 6 ELSE 0
           [] d = "Northwest" -> IF dirs = "Eight" THEN 7 ELSE 0

FrameIndex(found, d, f) ==
    IF found.some
      THEN Some(found.v.loc + Slot(found.v.state.dirs, d)
                + f * Cardinality_of(found.v.state.dirs))
      ELSE None

(* C3: for a reference that resolves, get_index_of_frame returns           *)
(* offset + slot(dirs, d) + f x cardinality(dirs) with the slot table      *)
(* above, a diagonal asked of a four-direction state taking slot 0.        *)
C3_FrameIndex ==
    (pc = "answered" /\ result.op = "get_index_of_frame") =>
        result.r = FrameIndex(
            KthDeclared(result.index, result.name, Declared(Len(states), result.name)),
            result.dir, result.frame)

(* a later frame of North in a four-direction state that does not start    *)
(* the sheet                                                               *)
C3_Witness ==
    /\ pc = "answered" /\ result.op = "get_index_of_frame"
    /\ result.r.some
    /\ result.dir = "North" /\ result.frame = 2 /\ result.index = 1
    /\ Declared(Len(states), result.name) = 2
    /\ states[PositionOf(1, result.name)].dirs = "Four"
    /\ CellsBefore(PositionOf(1, result.name) - 1) > 0
    /\ result.r.v = CellsBefore(PositionOf(1, result.name) - 1) + 1 + 2 * 4

----------------------------------------------------------------------------
(* metadata.rs: metadata() as one function of the description text *)

(* many0(state) *)
RECURSIVE many0_state(_, _)
many0_state(i, acc) ==
    Bind(state(i), LAMBDA r :
    IF ~r.ok THEN Ok(i, acc)
    ELSE many0_state(r.rest, Append(acc, r.val)))

(* states.into_iter().fold(0, ...): the state_map after the states from    *)
(* position k on, the cursor being c                                       *)
RECURSIVE fold_states(_, _, _, _)
fold_states(sts, k, c, map) ==
    IF k > Len(sts) THEN map
    ELSE fold_states(sts, k + 1, cursor_after(c, sts[k]),
                     entry_push(map, sts[k].name, [loc |-> c, state |-> sts[k]]))

(* all_consuming(delimited(begin_dmi, pair(header, many0(state)), end_dmi)) *)
(* and the Metadata built from it                                          *)
metadata(i) ==
    Then(begin_dmi(i), LAMBDA b :
    Then(header_parser(b.rest), LAMBDA h :
    Then(many0_state(h.rest, <<>>), LAMBDA sts :
    Then(end_dmi(sts.rest), LAMBDA e :
    IF e.rest # "" THEN Err
    ELSE Ok(e.rest, [header |-> h.val, declared |-> sts.val,
                     states |-> fold_states(sts.val, 1, 0, <<>>)])))))

----------------------------------------------------------------------------
(* dmi.rs: IconFile.  A PNG is the width and height of its one frame and   *)
(* the text of its Description chunk, if it has one; the IconFile keeps    *)
(* the image and the Metadata parsed from the text.                        *)

Rect(x, y, width, height) == [x |-> x, y |-> y, width |-> width, height |-> height]

(* IconFile::from_bytes: the chunk must exist and its text must parse *)
from_bytes(png) ==
    IF ~png.description.some THEN Err
    ELSE Then(metadata(png.description.v), LAMBDA m :
         Good([metadata |-> m.val, image |-> [width |-> png.width, height |-> png.height]]))

(* GenericImageView::view: the outcomes of asking img for the w x h view   *)
(* at (x, y); a view that leaves the image is refused by the library's     *)
(* assertion where the build has it                                        *)
view(img, x, y, w, h) ==
    IF x + w <= img.width /\ y + h <= img.height
      THEN {Good(Rect(x, y, w, h))}
      ELSE {Panic, Good(Rect(x, y, w, h))}

(* IconFile::get_icon: icon_count, then the view at (icon_x, icon_y) *)
get_icon(img, hdr, index) ==
    IF hdr.width = 0 \/ img.width \div hdr.width = 0 THEN {Panic}
    ELSE view(img, index % (img.width \div hdr.width),
                   index \div (img.width \div hdr.width),
                   hdr.width, hdr.height)

(* IconFile::rect_of_index: both the division and the remainder panic on a *)
(* zero divisor                                                            *)
rect_of_index(img, hdr, icon_index) ==
    IF hdr.width = 0 \/ img.width \div hdr.width = 0 THEN Panic
    ELSE Good(Rect((icon_index % (img.width \div hdr.width)) * hdr.width,
                   (icon_index \div (img.width \div hdr.width)) * hdr.height,
                   hdr.width, hdr.height))

(* the rectangle of a cell index that was found, if any *)
rect_of_found(img, hdr, found) ==
    IF ~found.some THEN Good(None)
    ELSE Bind(rect_of_index(img, hdr, found.v), LAMBDA r :
         IF r.ok THEN Good(Some(r.val)) ELSE r)

(* rect_of answering the whole image for an empty catalog *)
rect_of_full_sheet(img, hdr, map, index, name, d) ==
    IF map = <<>> THEN Good(Some(Rect(0, 0, img.width, img.height)))
    ELSE rect_of_found(img, hdr, get_index_of_frame(map, index, name, d, 0))

(* IconFile::rect_of *)
rect_of(img, hdr, map, index, name, d) ==
    IF map = <<>> THEN Good(Some(Rect(0, 0, hdr.width, hdr.height)))
    ELSE rect_of_found(img, hdr, get_index_of_frame(map, index, name, d, 0))

(* IconFile::get_icon_state: the State without its location *)
IconFile_get_icon_state(map, index, name) ==
    IfSome(get_icon_state(map, index, name), LAMBDA found : Some(found.state))

----------------------------------------------------------------------------
(* dmi.rs: composite.  An RgbaImage is its width, its height and its       *)
(* pixels row by row, a pixel being its four u8 channels; a channel index  *)
(* is one more than in the source (ALPHA = 3 is channel 4).                *)

NO_TINT == <<255, 255, 255, 255>>
ALPHA == 4

(* mul255 with the division done as a shift by 8 bits *)
mul255_shift(x, y) == (x * y) \div 256

(* fn mul255: (x as u32 * y as u32 / 255) as u8 *)
mul255(x, y) == ((x * y) \div 255) % 256

(* the tint: every channel of the copied pixel times the tint's channel *)
tinted(from_pix, tint_color) == [c \in 1..4 |-> mul255(from_pix[c], tint_color[c])]

(* let out_alpha = from_pix[ALPHA] + mul255(to_pix[ALPHA], 255 - from_pix[ALPHA]) *)
(* on a tinted from_pix; the u8 sum is at most 255                         *)
(* the two alphas added *)
out_alpha_sum(from_pix, to_pix) == from_pix[ALPHA] + to_pix[ALPHA]

(* out_alpha: the u8 sum, as a number *)
out_alpha_of(from_pix, to_pix) ==
    from_pix[ALPHA] + mul255(to_pix[ALPHA], 255 - from_pix[ALPHA])

(* the actual blend of one colour channel, truncated to u8 *)
(* the u32 value of a blended channel, before `as u8` *)
blend_u32(from_c, to_c, from_alpha, to_alpha, out_alpha) ==
    (from_c * from_alpha + ((to_c * to_alpha) * (255 - from_alpha)) \div 255)
        \div out_alpha

(* the channel stored: `as u8` keeps the low eight bits *)
blend_channel(from_c, to_c, from_alpha, to_alpha, out_alpha) ==
    blend_u32(from_c, to_c, from_alpha, to_alpha, out_alpha) % 256

(* the blend writing a cleared pixel when out_alpha is zero *)
blend_clearing(from_pix, to_pix, out_alpha) ==
    IF out_alpha = 0 THEN <<0, 0, 0, 0>>
    ELSE [c \in 1..4 |->
            IF c = ALPHA THEN out_alpha
            ELSE blend_channel(from_pix[c], to_pix[c], from_pix[ALPHA], to_pix[ALPHA],
                               out_alpha)]

(* the closure's body after the tint: to_pix as it is left *)
blend(from_pix, to_pix, out_alpha) ==
    IF out_alpha = 0 THEN to_pix
    ELSE [c \in 1..4 |->
            IF c = ALPHA THEN out_alpha
            ELSE blend_channel(from_pix[c], to_pix[c], from_pix[ALPHA], to_pix[ALPHA],
                               out_alpha)]

(* the closure of for_each on a tinted from_pix *)
blend_tinted(from_pix, to_pix) == blend(from_pix, to_pix, out_alpha_of(from_pix, to_pix))

(* from.view(x, y, width, height).to_image() *)
to_image(img, x, y, width, height) ==
    [width |-> width, height |-> height,
     pixels |-> [k \in 1..(width * height) |->
                    img.pixels[(y + ((k - 1) \div width)) * img.width
                               + x + ((k - 1) % width) + 1]]]

(* image_copy.pixels_mut().zip(to.pixels_mut()).for_each(..): the k-th      *)
(* pixel of the copy meets the k-th pixel of `to`, each in row order       *)
zip_for_each(image_copy, to, tint_color) ==
    [to EXCEPT !.pixels =
        [k \in 1..Len(to.pixels) |->
            IF k <= Len(image_copy.pixels)
              THEN blend_tinted(tinted(image_copy.pixels[k], tint_color), to.pixels[k])
              ELSE to.pixels[k]]]

(* composite with the crop clamped to the source *)
composite_clamping(from, to, crop_from, tint_color) ==
    IF crop_from.x > from.width \/ crop_from.y > from.height
      THEN [r |-> Err, to |-> to]
    ELSE [r |-> Good("()"),
          to |-> zip_for_each(
                    to_image(from, crop_from.x, crop_from.y,
                             IF crop_from.x + crop_from.width > from.width
                               THEN from.width - crop_from.x ELSE crop_from.width,
                             IF crop_from.y + crop_from.height > from.height
                               THEN from.height - crop_from.y ELSE crop_from.height),
                    to, tint_color)]

(* composite: the result and `to` as the call leaves it *)
composite(from, to, crop_from, tint_color) ==
    IF crop_from.x + crop_from.width > from.width
         \/ crop_from.y + crop_from.height > from.height
      THEN [r |-> Err, to |-> to]
    ELSE [r |-> Good("()"),
          to |-> zip_for_each(
                    to_image(from, crop_from.x, crop_from.y,
                             crop_from.width, crop_from.height),
                    to, tint_color)]

----------------------------------------------------------------------------
(* dmi/render.rs: IconRenderer and RenderStateGuard.  A render emits, for  *)
(* each frame number of its range in turn, the cells of the sheet it       *)
(* composites onto the canvas, one per direction.                          *)

(* the State's frames as render.rs matches on them: One, a Count, or the   *)
(* Delays whose length is the frame count                                  *)
Frames(st) ==
    IF st.delays.some
      THEN [variant |-> "Delays", count |-> Len(st.delays.v), delays |-> st.delays.v]
    ELSE IF st.frames = 1
      THEN [variant |-> "One", count |-> 1, delays |-> <<>>]
    ELSE [variant |-> "Count", count |-> st.frames, delays |-> <<>>]

(* prepare_render_state choosing Gif whatever the state *)
prepare_render_state_gif(icon_state, index) ==
    Bind(is_animated(icon_state), LAMBDA animated :
    IF ~animated.ok THEN animated
    ELSE Good([render_type |-> "Gif", state |-> icon_state, index |-> index]))

(* IconRenderer::prepare_render_state *)
prepare_render_state(icon_state, index) ==
    Bind(is_animated(icon_state), LAMBDA animated :
    IF ~animated.ok THEN animated
    ELSE Good([render_type |-> IF animated.val THEN "Gif" ELSE "Png",
               state |-> icon_state, index |-> index]))

(* IconRenderer::prepare_render *)
prepare_render(map, index, name) ==
    IF ~IconFile_get_icon_state(map, index, name).some THEN Err
    ELSE prepare_render_state(IconFile_get_icon_state(map, index, name).v, index)

(* render_frames: the frame count of the three variants *)
render_frames_count(frames) ==
    CASE frames.variant = "One" -> 1
      [] frames.variant = "Count" -> frames.count
      [] frames.variant = "Delays" -> frames.count

(* the range with the last and the first frame of the way back left out *)
frame_range_once(frames, rewind) ==
    IF rewind /\ frames > 0
      THEN [k \in 1..(2 * frames - 1) |-> IF k <= frames THEN k - 1 ELSE 2 * frames - 1 - k]
      ELSE [k \in 1..frames |-> k - 1]

(* (0..frames).chain((0..frames).rev()) with rewind, 0..frames without *)
frame_range(frames, rewind) ==
    IF rewind
      THEN [k \in 1..(2 * frames) |-> IF k <= frames THEN k - 1 ELSE 2 * frames - k]
      ELSE [k \in 1..frames |-> k - 1]

(* render_frames up to its loop: the range it will visit *)
render_frames(icon_state) ==
    Good(frame_range(render_frames_count(Frames(icon_state)), icon_state.rewind))

(* render_gif up to its loop: the usage error, the unreachable!() of the   *)
(* match, or the range it will visit                                       *)
render_gif(icon_state) ==
    Bind(is_animated(icon_state), LAMBDA animated :
    IF ~animated.ok THEN animated
    ELSE IF ~animated.val THEN Err
    ELSE IF Frames(icon_state).variant = "One" THEN Panic
    ELSE Good(frame_range(Frames(icon_state).count, icon_state.rewind)))

(* render_to_png: frame 0 alone *)
render_to_png(icon_state) == Good(<<0>>)

(* IconRenderer::ordered_dirs *)
ordered_dirs(dirs) ==
    CASE dirs = "One" -> <<"South">>
      [] dirs = "Four" -> <<"South", "North", "East", "West">>
      [] dirs = "Eight" -> <<"South", "North", "East", "West",
                             "Southeast", "Southwest", "Northeast", "Northwest">>

(* render_dirs for one direction: get_index_of_frame(..).unwrap(), then    *)
(* rect_of_index                                                           *)
render_dir(img, hdr, map, index, name, d, frame) ==
    IF ~get_index_of_frame(map, index, name, d, frame).some THEN Panic
    ELSE rect_of_index(img, hdr, get_index_of_frame(map, index, name, d, frame).v)

(* A canvas is its width, its height and the writes made on it since it   *)
(* was last transparent: for each, the place on the canvas and the         *)
(* rectangle of the sheet composited there.                                *)

(* IconRenderer::get_canvas: RgbaImage::new is transparent *)
get_canvas(hdr, dirs) ==
    [width |-> hdr.width * get_num(dirs), height |-> hdr.height, writes |-> <<>>]

(* the canvas left as it is after a frame *)
clear_nothing(drawn) == drawn

(* every pixel of the canvas set to [0, 0, 0, 0] *)
clear(drawn) == [drawn EXCEPT !.writes = <<>>]

(* every direction drawn at the left edge of the canvas *)
slot_at_origin(hdr, dir_no) == <<0, 0>>

(* (self.source.metadata.header.width * (dir_no as u32), 0) *)
slot_at(hdr, dir_no) == <<hdr.width * dir_no, 0>>

(* composite with a place on `to`: the bounds check of composite, then the *)
(* rectangle crop_from of `from` blended onto `to` with its top-left       *)
(* corner at `at`                                                          *)
composite_at(from, to, at, crop_from) ==
    IF crop_from.x + crop_from.width > from.width
         \/ crop_from.y + crop_from.height > from.height
      THEN [r |-> Err, to |-> to]
    ELSE [r |-> Good("()"),
          to |-> [to EXCEPT !.writes =
                     Append(@, [x |-> at[1], y |-> at[2], from |-> crop_from])]]

(* render_dirs from the n-th direction on: Panic, or the canvas drawn *)
RECURSIVE render_dirs_from(_, _, _, _, _, _, _, _)
render_dirs_from(img, hdr, map, icon_state, index, drawn, frame, n) ==
    IF n > Len(ordered_dirs(icon_state.dirs)) THEN Good(drawn)
    ELSE Bind(render_dir(img, hdr, map, index, icon_state.name,
                         ordered_dirs(icon_state.dirs)[n], frame), LAMBDA frame_rect :
         IF ~frame_rect.ok THEN frame_rect
         ELSE render_dirs_from(img, hdr, map, icon_state, index,
                               composite_at(img, drawn, slot_at(hdr, n - 1),
                                            frame_rect.val).to,
                               frame, n + 1))

(* IconRenderer::render_dirs *)
render_dirs(img, hdr, map, icon_state, index, drawn, frame) ==
    render_dirs_from(img, hdr, map, icon_state, index, drawn, frame, 1)

(* 1 decisecond => 0.1 second *)
Scaled(delay) == Normal(delay[1], delay[2] + 1)

(* every frame given the unit delay *)
gif_delay_unit(frames, frame) == Scaled(<<1, 0>>)

(* delays.map_or_else(|| 1.0, |f| *f.get(frame).unwrap_or(&1.0)) * 0.1 *)
gif_delay(frames, frame) ==
    IF frames.variant = "Delays" /\ frame < Len(frames.delays)
      THEN Scaled(frames.delays[frame + 1])
      ELSE Scaled(<<1, 0>>)

----------------------------------------------------------------------------
(* SpecIcon: an IconFile read from a PNG, its cell lookups and its         *)
(* renderer                                                                *)

MaxCell == 3

ImageWidths == {16, 32, 48, 64, 128}
ImageHeights == {32, 64}

IconHeaders ==
    {"version = 4.0\n\twidth = " \o w \o "\n\theight = " \o h \o "\n" :
        w \in {"0", "16", "32"}, h \in {"16", "32"}}

(* the states of a sheet: none, one, two of one name, animated ones with   *)
(* and without rewind, and one declared with no frame                      *)
IconBodies ==
    {"",
     "state = \"open\"\n\tdirs = 1\n\tframes = 1\n",
     "state = \"open\"\n\tdirs = 1\n\tframes = 1\n"
        \o "state = \"open\"\n\tdirs = 4\n\tframes = 1\n",
     "state = \"shut\"\n\tdirs = 4\n\tframes = 2\n\trewind = 1\n",
     "state = \"open\"\n\tdirs = 4\n\tframes = 2\n\trewind = 0\n"
        \o "state = \"shut\"\n\tdirs = 1\n\trewind = 1\n",
     "state = \"open\"\n\tdirs = 4\n\tframes = 2\n\tdelay = 1.2,1\n\trewind = 1\n",
     "state = \"shut\"\n\tdirs = 1\n\tframes = 0\n"
        \o "state = \"open\"\n\tdirs = 8\n\tframes = 3\n"}

IconDescriptions ==
    {Some("# BEGIN DMI\n" \o h \o b \o "# END DMI\n") : h \in IconHeaders, b \in IconBodies}
    \cup {Some(TestDescription), None}

Pngs ==
    {[width |-> w, height |-> h, description |-> t] :
        w \in ImageWidths, h \in ImageHeights, t \in IconDescriptions}

Occurrences == 0..1

InitIcon ==
    /\ input \in Pngs /\ pc = "from_bytes" /\ result = NoResult
    /\ IdleParse /\ IdleDir /\ IdleIcon /\ IdleComposite

FromBytes ==
    /\ pc = "from_bytes"
    /\ \E r \in {from_bytes(input)} :
       IF r.ok
         THEN /\ header' = Some(r.val.metadata.header)
              /\ states' = r.val.metadata.declared
              /\ state_map' = r.val.metadata.states
              /\ image' = r.val.image
              /\ pc' = "icon"
         ELSE /\ UNCHANGED <<header, states, state_map, image>>
              /\ pc' = "failed"
    /\ result' = [op |-> "from_bytes"]
    /\ UNCHANGED <<input, cursor, folded, renderVars, dirVars, compositeVars>>

(* a call on the IconFile that returns r *)
Answer(r) ==
    /\ pc = "icon"
    /\ result' = r
    /\ pc' = "done"
    /\ UNCHANGED <<input, parseVars, dirVars, iconVars, compositeVars>>

RectOf ==
    \E index \in Occurrences, name \in LookupNames, d \in Dir :
        Answer([op |-> "rect_of", index |-> index, name |-> name, dir |-> d,
                r |-> rect_of(image, header.v, state_map, index, name, d)])

RectOfIndex ==
    \E icon_index \in 0..MaxCell :
        Answer([op |-> "rect_of_index", index |-> icon_index,
                r |-> rect_of_index(image, header.v, icon_index)])

GetIcon ==
    /\ pc = "icon"
    /\ \E index \in 0..MaxCell :
          \E r \in get_icon(image, header.v, index) :
              Answer([op |-> "get_icon", index |-> index, r |-> r])

(* prepare_render(icon_state): the guard, or the error *)
PrepareRender ==
    /\ pc = "icon"
    /\ \E index \in Occurrences, name \in LookupNames :
          \E r \in {prepare_render(state_map, index, name)} :
              /\ result' = [op |-> "prepare_render", index |-> index, name |-> name, r |-> r]
              /\ IF r.ok THEN guard' = Some(r.val) /\ pc' = "guard"
                         ELSE guard' = guard /\ pc' = "done"
    /\ UNCHANGED <<input, parseVars, dirVars, image, rendering, canvas, range, emitted,
                   compositeVars>>

(* the delay lists a caller gives a State of two or of three frames *)
DelayLists == {<<<<12, 1>>, <<1, 0>>>>, <<<<1, 0>>, <<2, 0>>, <<54, 1>>>>}

(* the States a caller makes of st: st, or st with a delay for each frame *)
CallerStates(st) ==
    {st} \cup {[st EXCEPT !.delays = Some(d)] : d \in {l \in DelayLists : Len(l) = st.frames}}

(* prepare_render_state(icon_state, index) with a State of the caller's,   *)
(* here one the file declares or one made of it, and an index of the       *)
(* caller's                                                                *)
PrepareRenderState ==
    /\ pc = "icon"
    /\ \E k \in 1..Len(states), index \in Occurrences :
          \E st \in CallerStates(states[k]) :
          \E r \in {prepare_render_state(st, index)} :
              /\ result' = [op |-> "prepare_render_state", index |-> index,
                            name |-> st.name, r |-> r]
              /\ IF r.ok THEN guard' = Some(r.val) /\ pc' = "guard"
                         ELSE guard' = guard /\ pc' = "done"
    /\ UNCHANGED <<input, parseVars, dirVars, image, rendering, canvas, range, emitted,
                   compositeVars>>

(* a render function runs up to its loop: it has returned r, or will visit *)
(* the range r.val for icon_state and index                                *)
StartRender(name, icon_state, index, r) ==
    /\ IF r.ok
         THEN /\ rendering' = Some([state |-> icon_state, index |-> index])
              /\ canvas' = get_canvas(header.v, icon_state.dirs)
              /\ range' = r.val
              /\ pc' = name
              /\ result' = [op |-> name]
         ELSE /\ UNCHANGED <<rendering, canvas, range>>
              /\ pc' = "done"
              /\ result' = [op |-> name, r |-> r]
    /\ UNCHANGED <<input, parseVars, dirVars, image, guard, emitted, compositeVars>>

(* RenderStateGuard::render: the match on render_type *)
Render ==
    /\ pc = "guard"
    /\ IF guard.v.render_type = "Png"
         THEN StartRender("render_to_png", guard.v.state, guard.v.index,
                          render_to_png(guard.v.state))
         ELSE StartRender("render_gif", guard.v.state, guard.v.index,
                          render_gif(guard.v.state))

(* render_to_images(icon_index) *)
RenderToImages ==
    /\ pc = "icon"
    /\ \E index \in Occurrences, name \in LookupNames :
          IF ~IconFile_get_icon_state(state_map, index, name).some
            THEN /\ result' = [op |-> "render_to_images", index |-> index, name |-> name,
                               r |-> Err]
                 /\ pc' = "done"
                 /\ UNCHANGED <<input, parseVars, dirVars, iconVars, compositeVars>>
            ELSE StartRender("render_frames",
                             IconFile_get_icon_state(state_map, index, name).v, index,
                             render_frames(IconFile_get_icon_state(state_map, index, name).v))

Rendering == pc \in {"render_to_png", "render_gif", "render_frames"}

(* one turn of `for frame in range`: render_dirs, then the canvas emitted *)
RenderFrame ==
    /\ Rendering /\ range # <<>>
    /\ \E r \in {render_dirs(image, header.v, state_map, rendering.v.state,
                              rendering.v.index, canvas, Head(range))} :
          IF r.ok
            THEN /\ emitted' = Append(emitted,
                                [frame |-> Head(range), image |-> r.val,
                                 delay |-> IF pc = "render_gif"
                                             THEN gif_delay(Frames(rendering.v.state),
                                                            Head(range))
                                             ELSE <<>>])
                 /\ canvas' = IF pc = "render_to_png" THEN r.val ELSE clear(r.val)
                 /\ range' = Tail(range)
                 /\ UNCHANGED <<pc, result>>
            ELSE /\ result' = [op |-> pc, r |-> r]
                 /\ pc' = "done"
                 /\ UNCHANGED <<canvas, range, emitted>>
    /\ UNCHANGED <<input, parseVars, dirVars, image, guard, rendering, compositeVars>>

(* the range is exhausted: the render returns *)
RenderEnd ==
    /\ Rendering /\ range = <<>>
    /\ result' = [op |-> pc, r |-> Good(Len(emitted))]
    /\ pc' = "done"
    /\ UNCHANGED <<input, parseVars, dirVars, iconVars, compositeVars>>

NextIcon ==
    \/ FromBytes \/ RectOf \/ RectOfIndex \/ GetIcon
    \/ PrepareRender \/ PrepareRenderState \/ Render \/ RenderToImages
    \/ RenderFrame \/ RenderEnd

SpecIcon == InitIcon /\ [][NextIcon]_vars

(* columns = image width / cell width, and the rectangle of cell i *)
Columns == IF header.v.width = 0 THEN 0 ELSE image.width \div header.v.width

CellRect(i) ==
    Rect((i % Columns) * header.v.width, (i \div Columns) * header.v.height,
         header.v.width, header.v.height)

(* C12 as claimed: with an empty catalog rect_of returns, for any          *)
(* reference and direction, the rectangle at (0,0) of the whole sheet:     *)
(* image width by image height.                                            *)
C12_EmptyCatalogFullSheet ==
    (pc = "done" /\ result.op = "rect_of" /\ state_map = <<>>) =>
        result.r = Good(Some(Rect(0, 0, image.width, image.height)))

(* C12 as amended: with an empty catalog rect_of returns, for any          *)
(* reference and direction, the rectangle at (0,0) of one cell:            *)
(* header width by header height, whatever the size of the image.          *)
C12_EmptyCatalogOneCell ==
    (pc = "done" /\ result.op = "rect_of" /\ state_map = <<>>) =>
        result.r = Good(Some(Rect(0, 0, header.v.width, header.v.height)))

(* no states, 32 x 32 cells on a sheet 64 wide: the answer is (0,0,32,32)  *)
C12_Witness ==
    /\ pc = "done" /\ result.op = "rect_of" /\ state_map = <<>>
    /\ header.v.width = 32 /\ header.v.height = 32 /\ image.width = 64
    /\ result.r = Good(Some(Rect(0, 0, 32, 32)))

(* C13: for every cell index i of a sheet with at least one column, the    *)
(* cell lying on the sheet, get_icon(i) views the rectangle                *)
(* rect_of_index(i) returns:                                               *)
(* x = (i mod columns) x cell width, y = (i div columns) x cell height,    *)
(* cell width by cell height.  Stated of the code: violated, get_icon      *)
(* views at (i mod columns, i div columns) in pixels.                      *)
C13_GetIconViewsCell ==
    (pc = "done" /\ result.op = "get_icon" /\ Columns >= 1
       /\ CellRect(result.index).x + header.v.width <= image.width
       /\ CellRect(result.index).y + header.v.height <= image.height) =>
        /\ rect_of_index(image, header.v, result.index) = Good(CellRect(result.index))
        /\ result.r = Good(CellRect(result.index))

(* C14: every IconFile from_bytes returns has an image width that is a     *)
(* positive multiple of header.width, so that rect_of_index does not       *)
(* divide by zero.  Stated of the code: violated, from_bytes compares      *)
(* nothing of the image with the header.                                   *)
C14_WidthMultipleOfCell ==
    /\ pc = "icon" =>
          /\ header.v.width > 0
          /\ image.width % header.v.width = 0
          /\ image.width \div header.v.width >= 1
    /\ (pc = "done" /\ result.op = "rect_of_index") => result.r.ok

----------------------------------------------------------------------------
(* SpecComposite: composite applied to a source, a destination, a crop     *)
(* rectangle and a tint.  One family of calls meets one pixel with one     *)
(* pixel over every 8-bit value of each colour channel; the other crops    *)
(* rectangles, lying in the source or not, out of small images.            *)

MaxSide == 4

Alphas == {0, 1, 128, 254, 255}

(* a pixel for each v, every channel taking every 8-bit value over them *)
Colour(v, a) == <<v, 255 - v, (v * 7) % 256, a>>

FromPixels == {Colour(v, a) : v \in 0..255, a \in Alphas}

ToPixels(from_pix) ==
    {from_pix, <<0, 0, 0, 0>>, <<255, 255, 255, 0>>}
    \cup {<<0, 255, 128, a>> : a \in {1, 128, 255}}

Tints == {NO_TINT, <<255, 255, 255, 0>>, <<128, 255, 0, 128>>}

(* tints of the alpha channel alone *)
AlphaTints == {NO_TINT, <<255, 255, 255, 254>>, <<255, 255, 255, 128>>}

OnePixel(p) == [width |-> 1, height |-> 1, pixels |-> <<p>>]

Uniform(w, h, p) == [width |-> w, height |-> h, pixels |-> [k \in 1..(w * h) |-> p]]

(* an image whose pixels differ from place to place *)
Gradient(w, h, a) ==
    [width |-> w, height |-> h,
     pixels |-> [k \in 1..(w * h) |->
                    <<(16 * ((k - 1) % w)) % 256, (16 * ((k - 1) \div w)) % 256, 7, a>>]]

Sides == {2, MaxSide}

Sources ==
    UNION {{Uniform(w, h, <<255, 0, 0, 255>>), Gradient(w, h, 255), Gradient(w, h, 128)} :
              w \in Sides, h \in Sides}

Destinations(from) ==
    {from} \cup UNION {{Uniform(w, h, <<0, 0, 0, 0>>), Uniform(w, h, <<0, 0, 255, 255>>)} :
                          w \in Sides, h \in Sides}

Crops ==
    {Rect(x, y, w, h) : x \in 0..2, y \in 0..2, w \in 0..(MaxSide + 1), h \in 0..(MaxSide + 1)}

InitComposite ==
    /\ \/ \E from_pix \in FromPixels :
             /\ source = OnePixel(from_pix)
             /\ destination \in {OnePixel(p) : p \in ToPixels(from_pix)}
             /\ crop = Rect(0, 0, 1, 1)
             /\ tint \in Tints
       \/ \E from_alpha \in 0..255, to_alpha \in 0..255 :
             /\ source = OnePixel(<<255, 128, 0, from_alpha>>)
             /\ destination = OnePixel(<<255, 0, 128, to_alpha>>)
             /\ crop = Rect(0, 0, 1, 1)
             /\ tint \in AlphaTints
       \/ /\ source \in Sources
          /\ destination \in Destinations(source)
          /\ crop \in Crops
          /\ tint = NO_TINT
    /\ input = "" /\ pc = "composite" /\ result = NoResult
    /\ IdleParse /\ IdleDir /\ IdleIcon

Composite ==
    /\ pc = "composite"
    /\ \E c \in {composite(source, destination, crop, tint)} :
          /\ result' = [op |-> "composite", r |-> c.r, before |-> destination]
          /\ destination' = c.to
    /\ pc' = "composited"
    /\ UNCHANGED <<input, source, crop, tint, parseVars, dirVars, iconVars>>

NextComposite == Composite

SpecComposite == InitComposite /\ [][NextComposite]_vars

(* the pixel of img at column x, row y *)
PixelAt(img, x, y) == img.pixels[y * img.width + x + 1]

OutOfSource == crop.x + crop.width > source.width \/ crop.y + crop.height > source.height

(* the crop is the whole source and the destination has the source's size: *)
(* pixel k of the one meets pixel k of the other                           *)
PixelOnPixel ==
    /\ crop = Rect(0, 0, source.width, source.height)
    /\ destination.width = source.width /\ destination.height = source.height

(* C15: whenever the crop rectangle does not lie within the source image,  *)
(* composite returns an error, the rectangle is not clamped and no pixel   *)
(* of the destination has been modified.                                   *)
C15_OutOfBoundsIsError ==
    (pc = "composited" /\ OutOfSource) =>
        /\ ~result.r.ok
        /\ destination = result.before

(* a crop that starts inside the source and leaves it, over a destination  *)
(* a clamped crop would have painted                                       *)
C15_Witness ==
    /\ pc = "composited" /\ OutOfSource
    /\ crop.x < source.width /\ crop.y < source.height
    /\ crop.width > 0 /\ crop.height > 0
    /\ source.pixels[1][ALPHA] = 255 /\ result.before.pixels[1][ALPHA] = 0
    /\ ~result.r.ok

(* C16: a w x h crop at (0,0) of a fully opaque source, composited with no *)
(* tint onto a fully transparent destination that holds it, makes the      *)
(* destination's top-left w x h region equal, pixel for pixel, to the      *)
(* source's.  Stated of the code: violated for a crop narrower than the    *)
(* destination, the 2 x 2 crop on 4 x 4 images of composite_test included. *)
C16_CropLandsTopLeft ==
    (pc = "composited" /\ crop.x = 0 /\ crop.y = 0 /\ ~OutOfSource
       /\ crop.width <= destination.width /\ crop.height <= destination.height
       /\ tint = NO_TINT
       /\ (\A k \in 1..Len(source.pixels) : source.pixels[k][ALPHA] = 255)
       /\ (\A j \in 1..Len(result.before.pixels) : result.before.pixels[j] = <<0, 0, 0, 0>>)) =>
        /\ result.r.ok
        /\ \A x \in 0..(crop.width - 1), y \in 0..(crop.height - 1) :
              PixelAt(destination, x, y) = PixelAt(source, x, y)

(* C17: a fully opaque source pixel composited with the tint               *)
(* (255,255,255,255) onto a destination pixel of identical content leaves  *)
(* the four channels of that pixel unchanged, for every 8-bit value.       *)
C17_OpaqueOntoItself ==
    (pc = "composited" /\ result.r.ok /\ PixelOnPixel /\ tint = NO_TINT) =>
        \A k \in 1..Len(source.pixels) :
            (source.pixels[k][ALPHA] = 255 /\ result.before.pixels[k] = source.pixels[k]) =>
                destination.pixels[k] = result.before.pixels[k]

C17_Witness ==
    /\ pc = "composited" /\ result.r.ok /\ PixelOnPixel /\ tint = NO_TINT
    /\ source.pixels = <<Colour(200, 255)>>
    /\ result.before.pixels = source.pixels
    /\ destination.pixels = <<Colour(200, 255)>>

(* out_a = src_a + dst_a x (255 - src_a) / 255, src_a being the source's   *)
(* alpha after the tint                                                    *)
TintedAlpha(from_pix) == (from_pix[ALPHA] * tint[ALPHA]) \div 255
OutA(from_pix, to_pix) ==
    TintedAlpha(from_pix) + (to_pix[ALPHA] * (255 - TintedAlpha(from_pix))) \div 255

(* C18: whenever the output alpha computed for a destination pixel is      *)
(* zero, all four channels of that pixel are left as they were.            *)
C18_ZeroAlphaUntouched ==
    (pc = "composited" /\ result.r.ok /\ PixelOnPixel) =>
        \A k \in 1..Len(source.pixels) :
            OutA(source.pixels[k], result.before.pixels[k]) = 0 =>
                destination.pixels[k] = result.before.pixels[k]

(* a coloured destination pixel of alpha 0 under a source pixel the tint   *)
(* makes transparent                                                       *)
C18_Witness ==
    /\ pc = "composited" /\ result.r.ok /\ PixelOnPixel
    /\ source.pixels[1][ALPHA] = 255 /\ tint[ALPHA] = 0
    /\ result.before.pixels = <<<<255, 255, 255, 0>>>>
    /\ destination.pixels = <<<<255, 255, 255, 0>>>>

----------------------------------------------------------------------------
(* SpecIcon: the renderer *)

(* C19: the guard prepare_render returns has render type Gif if and only   *)
(* if its state is animated (more than one frame) and Png otherwise, so    *)
(* the GIF path is never entered through the guard for a state that is not *)
(* animated and render_gif's "gif with one frame" error is never returned. *)
C19_RenderTypeFollowsAnimation ==
    /\ guard.some =>
          /\ guard.v.render_type \in {"Png", "Gif"}
          /\ guard.v.render_type = "Gif" <=> guard.v.state.frames > 1
    /\ pc = "render_gif" => rendering.v.state.frames > 1
    /\ (result.op = "render_gif" /\ pc = "done") => result.r # Err

(* a GIF rendered to its end through the guard, and a PNG *)
C19_Witness ==
    /\ pc = "done" /\ guard.some /\ guard.v.render_type = "Gif"
    /\ result.op = "render_gif" /\ result.r.ok
    /\ Len(emitted) > 1

C19_WitnessPng ==
    /\ pc = "done" /\ guard.some /\ guard.v.render_type = "Png"
    /\ guard.v.state.frames = 1
    /\ result.op = "render_to_png" /\ result.r.ok

(* the frame numbers 0 .. F-1, and the same from F-1 down to 0 *)
Forward(F) == [k \in 1..F |-> k - 1]
Backward(F) == [k \in 1..F |-> F - k]

(* the frame numbers of the frames emitted so far *)
EmittedFrames == [k \in 1..Len(emitted) |-> emitted[k].frame]

(* the state rendered has one frame count: its delay list, if it has one,  *)
(* is as long as its frames value                                          *)
OneFrameCount(st) == st.delays.some => Len(st.delays.v) = st.frames

(* C20: render_frames and render_gif, for a state of F frames, emit the    *)
(* frames 0 .. F-1 in that order and stop when the state has no rewind,    *)
(* and emit 0 .. F-1 followed by F-1 .. 0, 2F frames, when it has; while   *)
(* they run, what they have emitted and what they have still to visit make *)
(* up that sequence.                                                       *)
C20_FrameOrder ==
    ((pc \in {"render_gif", "render_frames"}
        \/ (pc = "done" /\ result.op \in {"render_gif", "render_frames"} /\ result.r.ok))
      /\ OneFrameCount(rendering.v.state)) =>
        /\ EmittedFrames \o (IF pc = "done" THEN <<>> ELSE range)
             = IF rendering.v.state.rewind
                 THEN Forward(rendering.v.state.frames) \o Backward(rendering.v.state.frames)
                 ELSE Forward(rendering.v.state.frames)

(* a state of two frames with rewind rendered to its end: [0,1,1,0] *)
C20_Witness ==
    /\ pc = "done" /\ result.op \in {"render_gif", "render_frames"} /\ result.r.ok
    /\ rendering.v.state.frames = 2 /\ rendering.v.state.rewind
    /\ OneFrameCount(rendering.v.state)
    /\ EmittedFrames = <<0, 1, 1, 0>>

(* the same state without rewind: [0,1] and no third frame *)
C20_WitnessNoRewind ==
    /\ pc = "done" /\ result.op \in {"render_gif", "render_frames"} /\ result.r.ok
    /\ rendering.v.state.frames = 2 /\ ~rendering.v.state.rewind
    /\ EmittedFrames = <<0, 1>>

----------------------------------------------------------------------------
(* Spec: the cells get_index_of_frame answers *)

(* C23: get_index_of_frame returns None when the frame asked for is not    *)
(* below the frame count of the state the reference resolves to, as it     *)
(* does when the reference resolves to no state.  Stated of the code:      *)
(* violated, the frame number is never compared with the frame count.      *)
C23_FrameBeyondCountIsNone ==
    (pc = "answered" /\ result.op = "get_index_of_frame") =>
        ((~get_icon_state(state_map, result.index, result.name).some
            \/ result.frame >= get_icon_state(state_map, result.index, result.name).v.state.frames)
          => result.r = None)

(* the canonical directions of a direction count, as render.rs orders them *)
CanonicalDirs(dirs) == {ordered_dirs(dirs)[n] : n \in 1..Len(ordered_dirs(dirs))}

(* the cell indices get_index_of_frame answers for the state declared at   *)
(* position k, over its canonical directions and its frames                *)
CellsOf(k) ==
    {get_index_of_frame(state_map, Declared(k - 1, states[k].name), states[k].name, d, f).v :
        d \in CanonicalDirs(states[k].dirs), f \in 0..(states[k].frames - 1)}

(* C28: once metadata() has returned a catalog, for the state occurrence of offset o,     *)
(* cardinality D and frame count F, the indices get_index_of_frame answers *)
(* for its canonical directions and its frames below F lie in              *)
(* o .. o + D x F - 1, differ for different (direction, frame) pairs, and  *)
(* are shared with no other state occurrence.                              *)
C28_CellsInjectiveConfined ==
    pc = "loaded" =>
        \A k \in 1..Len(states) :
            /\ CellsOf(k) \subseteq
                  StoredAt(k).v.loc ..
                    (StoredAt(k).v.loc + Cardinality_of(states[k].dirs) * states[k].frames - 1)
            /\ Cardinality(CellsOf(k)) = Cardinality_of(states[k].dirs) * states[k].frames
            /\ \A j \in 1..Len(states) : j # k => CellsOf(j) \cap CellsOf(k) = {}

(* three states, one of eight directions and two frames between two others *)
C28_Witness ==
    /\ pc = "loaded" /\ Len(states) = 3
    /\ states[2].dirs = "Eight" /\ states[2].frames = 2
    /\ StoredAt(2).v.loc > 0
    /\ CellsOf(2) = StoredAt(2).v.loc .. (StoredAt(2).v.loc + 15)
    /\ CellsOf(1) # {} /\ CellsOf(3) # {}

----------------------------------------------------------------------------
(* SpecComposite: the arithmetic of one pixel *)

(* the source pixel k after the tint, as the closure blends it *)
TintedSource(k) == tinted(source.pixels[k], tint)

(* C26: for every tinted source pixel and destination pixel, each blended  *)
(* colour channel (src_c x src_a + dst_c x dst_a x (255 - src_a) / 255)    *)
(* / out_a that composite computes lies in 0..255, so that `as u8` stores  *)
(* the value computed.  Stated of the code: violated.                      *)
C26_BlendFitsInByte ==
    (pc = "composited" /\ result.r.ok /\ PixelOnPixel) =>
        \A k \in 1..Len(source.pixels) :
            out_alpha_of(TintedSource(k), result.before.pixels[k]) # 0 =>
                \A c \in 1..3 :
                    blend_u32(TintedSource(k)[c], result.before.pixels[k][c],
                              TintedSource(k)[ALPHA], result.before.pixels[k][ALPHA],
                              out_alpha_of(TintedSource(k), result.before.pixels[k]))
                      \in 0..255

(* C27: for every source alpha, tint alpha and destination alpha the sum   *)
(* src_a + mul255(dst_a, 255 - src_a) that composite computes as the       *)
(* output alpha is at most 255: the u8 addition does not overflow.         *)
C27_OutAlphaFitsInByte ==
    (pc = "composited" /\ result.r.ok /\ PixelOnPixel) =>
        \A k \in 1..Len(source.pixels) :
            /\ out_alpha_of(TintedSource(k), result.before.pixels[k]) \in 0..255
            /\ out_alpha_of(TintedSource(k), result.before.pixels[k]) # 0 =>
                  destination.pixels[k][ALPHA]
                    = out_alpha_of(TintedSource(k), result.before.pixels[k])

(* two translucent pixels whose alphas add up to more than 255 *)
C27_Witness ==
    /\ pc = "composited" /\ result.r.ok /\ PixelOnPixel /\ tint = NO_TINT
    /\ source.pixels[1][ALPHA] = 200 /\ result.before.pixels[1][ALPHA] = 200
    /\ destination.pixels[1][ALPHA] = 243

----------------------------------------------------------------------------
(* SpecIcon: the canvas of the renderer *)

(* a render_frames or render_gif that ran to its end *)
RenderedAll ==
    pc = "done" /\ result.op \in {"render_gif", "render_frames"} /\ result.r.ok

(* frame drawn on a new canvas for the state and index being rendered *)
DrawnAlone(frame) ==
    render_dirs(image, header.v, state_map, rendering.v.state, rendering.v.index,
                get_canvas(header.v, rendering.v.state.dirs), frame).val

(* C21: whenever the renderer is about to draw a frame the canvas is fully *)
(* transparent, so every emitted image is the one its frame index gives on *)
(* a new canvas, and with rewind emitted image i equals emitted image      *)
(* 2F-1-i.                                                                 *)
C21_FramesIndependent ==
    /\ (Rendering /\ range # <<>>) => canvas.writes = <<>>
    /\ Rendering \/ RenderedAll =>
          \A i \in 1..Len(emitted) : emitted[i].image = DrawnAlone(emitted[i].frame)
    /\ (RenderedAll /\ rendering.v.state.rewind) =>
          \A i \in 1..Len(emitted) : emitted[i].image = emitted[Len(emitted) + 1 - i].image

(* two frames with rewind, each drawn from the sheet: the four images are  *)
(* those of frames 0, 1, 1, 0                                              *)
C21_Witness ==
    /\ RenderedAll /\ rendering.v.state.rewind /\ Len(emitted) = 4
    /\ emitted[1].image.writes # <<>>
    /\ emitted[1].image # emitted[2].image
    /\ emitted[2].image = emitted[3].image
    /\ emitted[1].image = emitted[4].image

(* the sheet rectangle render_dirs takes for the k-th canonical direction  *)
(* (from 0) of the state being rendered, at a frame                        *)
CellOfSlot(k, frame) ==
    render_dir(image, header.v, state_map, rendering.v.index, rendering.v.state.name,
               ordered_dirs(rendering.v.state.dirs)[k + 1], frame).val

(* the write w covers canvas columns of slot k only, from the top row down *)
InSlot(w, k) ==
    /\ k * header.v.width <= w.x
    /\ w.x + w.from.width <= (k + 1) * header.v.width
    /\ w.y = 0 /\ w.from.height <= header.v.height

(* two writes share no canvas column *)
ColumnsApart(w, v) == w.x + w.from.width <= v.x \/ v.x + v.from.width <= w.x

NotInCatalog(index, name) == ~get_icon_state(state_map, index, name).some

(* C24: on every public render path, prepare_render, render_to_images, and *)
(* prepare_render_state followed by render, a reference (occurrence, name) *)
(* that is not in the catalog ends in an error value and never in a panic. *)
(* Stated of the code: violated on the path through prepare_render_state.  *)
C24_UnknownReferenceIsError ==
    /\ (pc = "done" /\ result.op \in {"prepare_render", "render_to_images"}
          /\ NotInCatalog(result.index, result.name)) => result.r = Err
    /\ (pc = "done" /\ result.op \in {"render_to_png", "render_gif"}
          /\ NotInCatalog(guard.v.index, guard.v.state.name)) => result.r = Err

(* a tenth of the decimal v: the declared unit times the scale factor *)
Tenth(v) == Normal(v[1], v[2] + 1)

(* the delay C25 gives the frame of index k of a state *)
DelayOf(st, k) == IF st.delays.some THEN Tenth(st.delays.v[k + 1]) ELSE Tenth(<<1, 0>>)

(* C25: in render_gif every emitted frame of index k carries delays[k] x   *)
(* 0.1 when the state has a delay list and 1.0 x 0.1 when it has none; the *)
(* frames emitted on the way back with rewind carry the delay of their own *)
(* index, so the delays mirror the frames.                                 *)
C25_DelayOfOwnFrame ==
    (pc = "render_gif" \/ (pc = "done" /\ result.op = "render_gif")) =>
        \A i \in 1..Len(emitted) :
            emitted[i].delay = DelayOf(rendering.v.state, emitted[i].frame)

(* delay = 1.2,1 with rewind: the delays emitted are 0.12, 0.1, 0.1, 0.12 *)
C25_Witness ==
    /\ pc = "done" /\ result.op = "render_gif" /\ result.r.ok
    /\ rendering.v.state.delays = Some(<<<<12, 1>>, <<1, 0>>>>)
    /\ rendering.v.state.rewind
    /\ [i \in 1..Len(emitted) |-> emitted[i].delay]
         = <<<<12, 2>>, <<1, 1>>, <<1, 1>>, <<12, 2>>>>

(* a state without a delay list: every frame carries 0.1 *)
C25_WitnessUnit ==
    /\ pc = "done" /\ result.op = "render_gif" /\ result.r.ok
    /\ ~rendering.v.state.delays.some
    /\ Len(emitted) > 1
    /\ \A i \in 1..Len(emitted) : emitted[i].delay = <<1, 1>>

====
